---- MODULE Spec2Model ----
(***************************************************************************)
(* Jobly: the Express data-access layer (Company, Job, User,               *)
(* JobApplication over four PostgreSQL tables), the partial-update         *)
(* builder, the JWT helper, the auth middleware and the HTTP routes.       *)
(*                                                                         *)
(* Specifications:                                                         *)
(*   Spec      the data-access layer called directly, one operation per    *)
(*             step, every query of an operation awaited in sequence       *)
(*   SpecFind  Company.findAll / Job.findAll over bounded tables, filters  *)
(*   SpecHttp  whole HTTP requests through app.js: authenticateJWT, the    *)
(*             router's guards, the validator, the model, the responder    *)
(***************************************************************************)
EXTENDS Integers, Sequences, FiniteSets, TLC

VARIABLES
    companies,      \* table companies: handle -> row
    jobs,           \* table jobs: id -> row
    jobs_id_seq,    \* the SERIAL sequence behind jobs.id: last value handed out
    users,          \* table users: username -> row
    applications,   \* table applications: set of [username, job_id]
    ret,            \* the last data-layer call: operation, arguments, outcome, queries issued
    resp,           \* the last HTTP exchange: request, res.locals, response
    issued,         \* the tokens the server has signed and handed to clients
    api,            \* the browser's JoblyApi instance, its localStorage and its requests in flight
    inflight        \* the data-layer calls followed query by query: arguments, next query, outcome

dbVars == <<companies, jobs, jobs_id_seq, users, applications>>
vars == <<companies, jobs, jobs_id_seq, users, applications, ret, resp, issued, api, inflight>>

(***************************************************************************)
(* JavaScript values: undefined, null, or a value.                         *)
(***************************************************************************)
undefined == [t |-> "undefined"]
null == [t |-> "null"]
V(x) == [t |-> "value", v |-> x]
\* an array (result.rows), kept apart from the objects
Array(items) == [t |-> "array", items |-> items]

\* a key argument names a row of the table
KeyIn(k, table) == k.t = "value" /\ k.v \in DOMAIN table
\* what node-postgres binds for a query parameter: undefined is sent as NULL
ToSql(x) == IF x = undefined THEN null ELSE x

(***************************************************************************)
(* expressError.js                                                         *)
(***************************************************************************)
ExpressError(message, status) == [name |-> "ExpressError", message |-> message, status |-> status]
NotFoundError(message) == [name |-> "NotFoundError", message |-> message, status |-> V(404)]
UnauthorizedError(message) == [name |-> "UnauthorizedError", message |-> message, status |-> V(401)]
BadRequestError(message) == [name |-> "BadRequestError", message |-> message, status |-> V(400)]

\* how a call ends
Return(v) == [kind |-> "return", value |-> v]
Throw(e) == [kind |-> "throw", error |-> e]

\* the database as one value, and the result of a data-layer call on it
Db == [companies |-> companies, jobs |-> jobs, jobs_id_seq |-> jobs_id_seq,
       users |-> users, applications |-> applications]
Res(db, out, queries) == [db |-> db, out |-> out, queries |-> queries]

\* db.query rejects: the failAt-th query of the call (0: none) fails in the driver
DbDown == "connection terminated unexpectedly"

(***************************************************************************)
(* Sequences                                                               *)
(***************************************************************************)
\* the order of ORDER BY over the usernames of the model
UsernameOrder == <<"a1", "u1", "u2", "u3">>


(***************************************************************************)
(* helpers/sql.js: sqlForPartialUpdate.  dataToUpdate is the object as     *)
(* the sequence of its own keys (Object.keys order) with their values;     *)
(* jsToSql is a function from some keys to column names.  The result is    *)
(* thrown "No data", or cols (each "<column>"=$<n>) and values.            *)
(***************************************************************************)
\* a plain object as a field's value: typeof value === 'object', not null, not an array
Obj(entries) == [t |-> "object", entries |-> entries]

\* k.startsWith(prefix)
startsWith(k, prefix) == Len(k) >= Len(prefix) /\ SubSeq(k, 1, Len(prefix)) = prefix

\* mutant: the mapping is not looked at
SqlKey_Unmapped(jsToSql, key) == key

\* jsToSql[key] || key
SqlKey(jsToSql, key) ==
    IF key \in DOMAIN jsToSql /\ jsToSql[key] # "" THEN jsToSql[key] ELSE key

\* Object.entries(value).forEach: the entries of a nested object, each under
\* the name "<key>.<nestedKey>"
RECURSIVE NestedCols(_, _, _, _)
NestedCols(key, entries, jsToSql, n) ==
    IF entries = <<>> THEN [cols |-> <<>>, values |-> <<>>]
    ELSE IF Head(entries).value # undefined
    THEN LET rest == NestedCols(key, Tail(entries), jsToSql, n + 1)
         IN  [cols |-> <<[col |-> SqlKey(jsToSql, key \o "." \o Head(entries).key),
                          ph |-> n + 1]>> \o rest.cols,
              values |-> <<Head(entries).value>> \o rest.values]
    ELSE NestedCols(key, Tail(entries), jsToSql, n)

RECURSIVE PartialCols(_, _, _)
PartialCols(data, jsToSql, n) ==
    IF data = <<>> THEN [cols |-> <<>>, values |-> <<>>]
    ELSE LET key == Head(data).key
             value == Head(data).value
         IN  IF value # undefined
             THEN LET here == IF /\ value.t = "object"
                                 /\ \E k \in DOMAIN jsToSql : startsWith(k, key \o ".")
                              THEN NestedCols(key, value.entries, jsToSql, n)
                              ELSE [cols |-> <<[col |-> SqlKey(jsToSql, key), ph |-> n + 1]>>,
                                    values |-> <<value>>]
                      rest == PartialCols(Tail(data), jsToSql, n + Len(here.values))
                  IN  [cols |-> here.cols \o rest.cols, values |-> here.values \o rest.values]
             ELSE PartialCols(Tail(data), jsToSql, n)

\* mutant: the empty object is not refused
sqlForPartialUpdate_NoEmptyCheck(dataToUpdate, jsToSql) ==
    LET r == PartialCols(dataToUpdate, jsToSql, 0)
    IN  Return([setCols |-> r.cols, values |-> r.values])

sqlForPartialUpdate(dataToUpdate, jsToSql) ==
    IF Len(dataToUpdate) = 0
    THEN Throw(BadRequestError("No data"))
    ELSE LET r == PartialCols(dataToUpdate, jsToSql, 0)
         IN  Return([setCols |-> r.cols, values |-> r.values])

\* What PostgreSQL does with UPDATE <table> SET <setCols> WHERE <key> = $n:
\* an empty SET list is a syntax error, a column the table lacks is an error;
\* otherwise every assignment is applied to the row.
SetListOk(setCols, columns) ==
    /\ Len(setCols) > 0
    /\ \A i \in DOMAIN setCols : setCols[i].col \in columns

RECURSIVE ApplySet(_, _, _)
ApplySet(row, setCols, values) ==
    IF setCols = <<>> THEN row
    ELSE ApplySet([row EXCEPT ![Head(setCols).col] = values[Head(setCols).ph]],
                  Tail(setCols), values)

(***************************************************************************)
(* The tables.  Every column holds a JavaScript value (V(x) or null); the  *)
(* keys (handle, id, username) index the table.                            *)
(***************************************************************************)
CompanyColumns == {"handle", "name", "description", "num_employees", "logo_url"}
JobColumns == {"id", "title", "salary", "equity", "company_handle"}
UserColumns == {"username", "password", "first_name", "last_name", "email", "is_admin"}

\* NOT NULL columns: an INSERT of NULL into one is rejected by PostgreSQL
CompanyRowOk(row) == row.handle # null /\ row.name # null /\ row.description # null
JobRowOk(row) == row.title # null /\ row.company_handle # null
UserRowOk(row) ==
    /\ row.username # null /\ row.password # null /\ row.first_name # null
    /\ row.last_name # null /\ row.email # null /\ row.is_admin # null

\* ON DELETE CASCADE of the foreign keys jobs.company_handle, applications.job_id
\* and applications.username
JobsOf(db, handle) == {id \in DOMAIN db.jobs : db.jobs[id].company_handle = V(handle)}

DeleteJobs(db, ids) ==
    [db EXCEPT !.jobs = [id \in (DOMAIN db.jobs) \ ids |-> db.jobs[id]],
               !.applications = {a \in db.applications : a.job_id \notin ids}]

DeleteCompanyRow(db, handle) ==
    LET d == DeleteJobs(db, JobsOf(db, handle))
    IN  [d EXCEPT !.companies = [h \in (DOMAIN db.companies) \ {handle} |-> db.companies[h]]]

DeleteUserRow(db, username) ==
    [db EXCEPT !.users = [u \in (DOMAIN db.users) \ {username} |-> db.users[u]],
               !.applications = {a \in db.applications : a.username # username}]

(***************************************************************************)
(* models/company.js                                                       *)
(***************************************************************************)
\* RETURNING handle, name, description, num_employees AS "numEmployees", logo_url AS "logoUrl"
CompanyReturning(row) ==
    [handle |-> row.handle, name |-> row.name, description |-> row.description,
     numEmployees |-> row.num_employees, logoUrl |-> row.logo_url]

CompanyRow(c) ==
    [handle |-> ToSql(c.handle), name |-> ToSql(c.name),
     description |-> ToSql(c.description),
     num_employees |-> ToSql(c.numEmployees), logo_url |-> ToSql(c.logoUrl)]

\* mutant: no duplicate check, the INSERT replaces the row
CompanyCreate_Overwrite(db, c, failAt) ==
    LET row == CompanyRow(c)
    IN  Res([db EXCEPT !.companies =
                [h \in (DOMAIN db.companies) \cup {c.handle.v} |->
                    IF h = c.handle.v THEN row ELSE db.companies[h]]],
            Return(CompanyReturning(row)),
            <<"INSERT companies">>)

CompanyCreate(db, c, failAt) ==
    IF failAt = 1
    THEN Res(db, Throw(ExpressError(DbDown, undefined)), <<"SELECT companies">>)
    ELSE IF KeyIn(c.handle, db.companies)
    THEN Res(db, Throw(BadRequestError("Duplicate company")), <<"SELECT companies">>)
    ELSE IF failAt = 2
    THEN Res(db, Throw(ExpressError(DbDown, undefined)),
             <<"SELECT companies", "INSERT companies">>)
    ELSE IF ~CompanyRowOk(CompanyRow(c))
    THEN Res(db, Throw(ExpressError(DbDown, undefined)),
             <<"SELECT companies", "INSERT companies">>)
    ELSE LET row == CompanyRow(c)
         IN  Res([db EXCEPT !.companies =
                     [h \in (DOMAIN db.companies) \cup {c.handle.v} |->
                         IF h = c.handle.v THEN row ELSE db.companies[h]]],
                 Return(CompanyReturning(row)),
                 <<"SELECT companies", "INSERT companies">>)

\* the rows of the LEFT JOIN, as the jobs list of the company (no ORDER BY:
\* the list is kept as the set of its elements)
CompanyJobs(db, handle) ==
    {[id |-> V(id), title |-> db.jobs[id].title, salary |-> db.jobs[id].salary,
      equity |-> db.jobs[id].equity] : id \in JobsOf(db, handle)}

CompanyGet(db, handle, failAt) ==
    IF handle.t # "value" \/ handle.v = ""
    THEN Res(db, Throw(NotFoundError("No company")), <<>>)
    ELSE IF failAt = 1
    THEN Res(db, Throw(ExpressError(DbDown, undefined)), <<"SELECT companies JOIN jobs">>)
    ELSE IF ~KeyIn(handle, db.companies)
    THEN Res(db, Throw(NotFoundError("No company")), <<"SELECT companies JOIN jobs">>)
    ELSE Res(db,
             Return([handle |-> db.companies[handle.v].handle,
                     name |-> db.companies[handle.v].name,
                     description |-> db.companies[handle.v].description,
                     numEmployees |-> db.companies[handle.v].num_employees,
                     logoUrl |-> db.companies[handle.v].logo_url,
                     jobs |-> CompanyJobs(db, handle.v)]),
             <<"SELECT companies JOIN jobs">>)


CompanyUpdate(db, handle, data, failAt) ==
    LET s == sqlForPartialUpdate(data, [numEmployees |-> "num_employees",
                                         logoUrl |-> "logo_url"])
    IN  IF s.kind = "throw"
        THEN Res(db, s, <<>>)
        ELSE IF failAt = 1 \/ ~SetListOk(s.value.setCols, CompanyColumns)
        THEN Res(db, Throw(ExpressError(DbDown, undefined)), <<"UPDATE companies">>)
        ELSE IF ~KeyIn(handle, db.companies)
        THEN Res(db, Throw(NotFoundError("No company")), <<"UPDATE companies">>)
        ELSE LET row == ApplySet(db.companies[handle.v], s.value.setCols, s.value.values)
             IN  IF ~CompanyRowOk(row)
                 THEN Res(db, Throw(ExpressError(DbDown, undefined)), <<"UPDATE companies">>)
                 ELSE Res([db EXCEPT !.companies[handle.v] = row],
                          Return(CompanyReturning(row)), <<"UPDATE companies">>)

\* mutant: the number of deleted rows is not looked at
CompanyRemove_NoRowCheck(db, handle, failAt) ==
    IF failAt = 1
    THEN Res(db, Throw(ExpressError(DbDown, undefined)), <<"DELETE companies">>)
    ELSE IF ~KeyIn(handle, db.companies)
    THEN Res(db, Return(undefined), <<"DELETE companies">>)
    ELSE Res(DeleteCompanyRow(db, handle.v), Return(undefined), <<"DELETE companies">>)

CompanyRemove(db, handle, failAt) ==
    IF failAt = 1
    THEN Res(db, Throw(ExpressError(DbDown, undefined)), <<"DELETE companies">>)
    ELSE IF ~KeyIn(handle, db.companies)
    THEN Res(db, Throw(NotFoundError("No company")), <<"DELETE companies">>)
    ELSE Res(DeleteCompanyRow(db, handle.v), Return(undefined), <<"DELETE companies">>)

(***************************************************************************)
(* models/job.js                                                           *)
(***************************************************************************)
\* RETURNING id, title, salary, equity, company_handle AS "companyHandle"
JobReturning(row) ==
    [id |-> row.id, title |-> row.title, salary |-> row.salary, equity |-> row.equity,
     companyHandle |-> row.company_handle]

\* mutant: the company is not looked up before the INSERT
JobCreate_NoCompanyCheck(db, j, failAt) ==
    LET id == db.jobs_id_seq + 1
        row == [id |-> V(id), title |-> ToSql(j.title), salary |-> ToSql(j.salary),
                equity |-> ToSql(j.equity), company_handle |-> ToSql(j.companyHandle)]
    IN  Res([db EXCEPT !.jobs_id_seq = id,
                       !.jobs = [i \in (DOMAIN db.jobs) \cup {id} |->
                                    IF i = id THEN row ELSE db.jobs[i]]],
            Return(JobReturning(row)), <<"INSERT jobs">>)

JobCreate(db, j, failAt) ==
    IF j.companyHandle = undefined \/ j.companyHandle = null
    THEN Res(db, Throw(BadRequestError("Company Handle is null")), <<>>)
    ELSE IF failAt = 1
    THEN Res(db, Throw(ExpressError(DbDown, V(500))), <<"SELECT companies">>)
    ELSE IF ~KeyIn(j.companyHandle, db.companies)
    THEN Res(db, Throw(BadRequestError("Company not found")), <<"SELECT companies">>)
    ELSE LET id == db.jobs_id_seq + 1
             row == [id |-> V(id), title |-> ToSql(j.title), salary |-> ToSql(j.salary),
                     equity |-> ToSql(j.equity), company_handle |-> j.companyHandle]
         IN  IF failAt = 2
             THEN Res(db, Throw(ExpressError(DbDown, V(500))),
                      <<"SELECT companies", "INSERT jobs">>)
             ELSE IF ~JobRowOk(row)
             \* nextval() is not rolled back when the INSERT fails
             THEN Res([db EXCEPT !.jobs_id_seq = id], Throw(ExpressError(DbDown, V(500))),
                      <<"SELECT companies", "INSERT jobs">>)
             ELSE Res([db EXCEPT !.jobs_id_seq = id,
                                 !.jobs = [i \in (DOMAIN db.jobs) \cup {id} |->
                                             IF i = id THEN row ELSE db.jobs[i]]],
                      Return(JobReturning(row)),
                      <<"SELECT companies", "INSERT jobs">>)

JobGet(db, id, failAt) ==
    IF id = undefined
    THEN Res(db, Throw(NotFoundError("No job for ID")), <<>>)
    ELSE IF failAt = 1
    THEN Res(db, Throw(ExpressError(DbDown, V(500))), <<"SELECT jobs">>)
    ELSE IF ~KeyIn(id, db.jobs)
    THEN Res(db, Throw(NotFoundError("No job was found for ID")), <<"SELECT jobs">>)
    ELSE Res(db,
             Return([id |-> id, title |-> db.jobs[id.v].title, salary |-> db.jobs[id.v].salary,
                     equity |-> db.jobs[id.v].equity,
                     companyHandle |-> db.jobs[id.v].company_handle]),
             <<"SELECT jobs">>)


\* the query of Job.update is not in a try block: what db.query rejects with
\* leaves the method as it is, a driver error without a status
DriverError == [name |-> "Error", message |-> DbDown, status |-> undefined]

JobUpdate(db, id, data, failAt) ==
    LET s == sqlForPartialUpdate(data, [title |-> "title", salary |-> "salary",
                                         equity |-> "equity"])
    IN  IF s.kind = "throw"
        THEN Res(db, s, <<>>)
        ELSE IF failAt = 1 \/ ~SetListOk(s.value.setCols, JobColumns)
        THEN Res(db, Throw(DriverError), <<"UPDATE jobs">>)
        ELSE IF ~KeyIn(id, db.jobs)
        THEN Res(db, Throw(NotFoundError("No job was updated")), <<"UPDATE jobs">>)
        ELSE LET row == ApplySet(db.jobs[id.v], s.value.setCols, s.value.values)
             IN  IF ~JobRowOk(row)
                 THEN Res(db, Throw(DriverError), <<"UPDATE jobs">>)
                 ELSE Res([db EXCEPT !.jobs[id.v] = row],
                          Return(JobReturning(row)), <<"UPDATE jobs">>)

JobRemove(db, id, failAt) ==
    IF failAt = 1
    THEN Res(db, Throw(NotFoundError(DbDown)), <<"DELETE jobs">>)
    ELSE IF ~KeyIn(id, db.jobs)
    THEN Res(db, Throw(NotFoundError("No job")), <<"DELETE jobs">>)
    ELSE Res(DeleteJobs(db, {id.v}), Return(undefined), <<"DELETE jobs">>)

(***************************************************************************)
(* models/user.js                                                          *)
(***************************************************************************)
\* bcrypt.hash(password, BCRYPT_WORK_FACTOR): the hash of a password (the
\* salt is left out); bcrypt.compare(password, stored) is true exactly of a
\* stored hash made from that password
BcryptHash(password) == [t |-> "value", bcrypt |-> password]

\* RETURNING username, first_name AS "firstName", last_name AS "lastName", email,
\* is_admin AS "isAdmin"
UserReturning(row) ==
    [username |-> row.username, firstName |-> row.first_name, lastName |-> row.last_name,
     email |-> row.email, isAdmin |-> row.is_admin]

\* mutant: the selected row is returned with its password column
AuthenticatedUser_WithPassword(row) ==
    [username |-> row.username, password |-> row.password, firstName |-> row.first_name,
     lastName |-> row.last_name, email |-> row.email, isAdmin |-> row.is_admin]

\* the row as User.authenticate selects it, after delete user.password
AuthenticatedUser(row) == UserReturning(row)

UserAuthenticate(db, username, password, failAt) ==
    IF failAt = 1
    THEN Res(db, Throw(ExpressError(DbDown, V(500))), <<"SELECT users">>)
    ELSE IF KeyIn(username, db.users) /\ db.users[username.v].password = BcryptHash(password)
    THEN Res(db, Return(AuthenticatedUser(db.users[username.v])), <<"SELECT users">>)
    ELSE Res(db, Throw(UnauthorizedError("Invalid username/password")), <<"SELECT users">>)

UserRow(u) ==
    [username |-> ToSql(u.username), password |-> BcryptHash(u.password),
     first_name |-> ToSql(u.firstName), last_name |-> ToSql(u.lastName),
     email |-> ToSql(u.email), is_admin |-> ToSql(u.isAdmin)]

UserRegister(db, u, failAt) ==
    IF failAt = 1
    THEN Res(db, Throw(ExpressError(DbDown, V(500))), <<"SELECT users">>)
    ELSE IF KeyIn(u.username, db.users)
    THEN Res(db, Throw(BadRequestError("Duplicate username")), <<"SELECT users">>)
    ELSE IF failAt = 2 \/ ~UserRowOk(UserRow(u))
    THEN Res(db, Throw(ExpressError(DbDown, V(500))), <<"SELECT users", "INSERT users">>)
    ELSE Res([db EXCEPT !.users = [n \in (DOMAIN db.users) \cup {u.username.v} |->
                                     IF n = u.username.v THEN UserRow(u) ELSE db.users[n]]],
             Return(UserReturning(UserRow(u))),
             <<"SELECT users", "INSERT users">>)

\* ORDER BY username: the usernames in order, as a sequence of rows
RECURSIVE UsersInOrder(_, _)
UsersInOrder(db, names) ==
    IF names = {} THEN <<>>
    ELSE LET first == CHOOSE n \in names : \A m \in names :
                            \A i, j \in DOMAIN UsernameOrder :
                                (UsernameOrder[i] = n /\ UsernameOrder[j] = m) => i <= j
         IN  <<UserReturning(db.users[first])>> \o UsersInOrder(db, names \ {first})

UserFindAll(db, failAt) ==
    IF failAt = 1
    THEN Res(db, Throw(ExpressError(DbDown, V(500))), <<"SELECT users">>)
    ELSE Res(db, Return(Array(UsersInOrder(db, DOMAIN db.users))), <<"SELECT users">>)

\* the job ids of the applications of a user (no ORDER BY: kept as a set)
JobIdsOf(db, username) == {a.job_id : a \in {b \in db.applications : b.username = username}}

\* mutant: user.jobs is assigned whatever the second query returns
WithJobs_Always(user, jobIds) ==
    [username |-> user.username, firstName |-> user.firstName,
     lastName |-> user.lastName, email |-> user.email, isAdmin |-> user.isAdmin,
     jobs |-> jobIds]

\* user.jobs is assigned only when the second query returns rows
WithJobs(user, jobIds) ==
    IF jobIds # {}
    THEN [username |-> user.username, firstName |-> user.firstName,
          lastName |-> user.lastName, email |-> user.email, isAdmin |-> user.isAdmin,
          jobs |-> jobIds]
    ELSE user

\* mutant: the jobs list is left out when the user has no application
UserGet_JobsOmitted(db, username, failAt) ==
    IF failAt = 1
    THEN Res(db, Throw(ExpressError(DbDown, V(500))), <<"SELECT users JOIN applications">>)
    ELSE IF ~KeyIn(username, db.users)
    THEN Res(db, Throw(NotFoundError("No username found")),
             <<"SELECT users JOIN applications">>)
    ELSE Res(db,
             Return(WithJobs(UserReturning(db.users[username.v]), JobIdsOf(db, username.v))),
             <<"SELECT users JOIN applications">>)

UserGet(db, username, failAt) ==
    IF failAt = 1
    THEN Res(db, Throw(ExpressError(DbDown, V(500))), <<"SELECT users JOIN applications">>)
    ELSE IF ~KeyIn(username, db.users)
    THEN Res(db, Throw(NotFoundError("No username found")),
             <<"SELECT users JOIN applications">>)
    ELSE LET row == db.users[username.v]
         IN  Res(db,
                 Return([username |-> row.username, firstName |-> row.first_name,
                         lastName |-> row.last_name, email |-> row.email,
                         isAdmin |-> row.is_admin, jobs |-> JobIdsOf(db, username.v)]),
                 <<"SELECT users JOIN applications">>)


\* data[key], undefined when the object has no such key
Field(data, key) ==
    IF \E i \in DOMAIN data : data[i].key = key
    THEN data[CHOOSE i \in DOMAIN data : data[i].key = key].value
    ELSE undefined

\* if (data.password) data.password = await bcrypt.hash(data.password, ...)
Truthy(x) == x \notin {undefined, null, V("")}
HashPasswordField(data) ==
    IF Truthy(Field(data, "password"))
    THEN [i \in DOMAIN data |->
            IF data[i].key = "password"
            THEN [key |-> "password", value |-> BcryptHash(data[i].value.v)]
            ELSE data[i]]
    ELSE data

UserUpdate(db, username, data, failAt) ==
    LET s == sqlForPartialUpdate(HashPasswordField(data),
                                 [firstName |-> "first_name", lastName |-> "last_name",
                                  isAdmin |-> "is_admin"])
    IN  IF s.kind = "throw"
        THEN Res(db, s, <<>>)
        ELSE IF failAt = 1 \/ ~SetListOk(s.value.setCols, UserColumns)
        THEN Res(db, Throw(ExpressError(DbDown, V(500))), <<"UPDATE users">>)
        ELSE IF ~KeyIn(username, db.users)
        THEN Res(db, Throw(NotFoundError("No user")), <<"UPDATE users">>)
        ELSE LET row == ApplySet(db.users[username.v], s.value.setCols, s.value.values)
                 d == [db EXCEPT !.users[username.v] = row]
             IN  IF ~UserRowOk(row)
                 THEN Res(db, Throw(ExpressError(DbDown, V(500))), <<"UPDATE users">>)
                 ELSE IF failAt = 2
                 THEN Res(d, Throw(ExpressError(DbDown, V(500))),
                          <<"UPDATE users", "SELECT applications">>)
                 ELSE Res(d, Return(WithJobs(UserReturning(row), JobIdsOf(d, row.username.v))),
                          <<"UPDATE users", "SELECT applications">>)

UserRemove(db, username, failAt) ==
    IF failAt = 1
    THEN Res(db, Throw(ExpressError(DbDown, V(500))), <<"DELETE users">>)
    ELSE IF ~KeyIn(username, db.users)
    THEN Res(db, Throw(NotFoundError("No user")), <<"DELETE users">>)
    ELSE Res(DeleteUserRow(db, username.v), Return(undefined), <<"DELETE users">>)

(***************************************************************************)
(* models/jobApplication.js                                                *)
(***************************************************************************)
\* mutant: the job and the user are not looked up before the INSERT
JobApplicationApply_NoLookup(db, username, jobId, failAt) ==
    IF username = undefined \/ jobId = undefined
    THEN Res(db, Throw(BadRequestError("Invalid input parameters.")), <<>>)
    ELSE IF [username |-> username.v, job_id |-> jobId.v] \in db.applications
    THEN Res(db, Throw(BadRequestError("Job Application has already been submitted")),
             <<"SELECT applications">>)
    ELSE Res([db EXCEPT !.applications = @ \cup {[username |-> username.v, job_id |-> jobId.v]}],
             Return([applied |-> jobId]), <<"SELECT applications", "INSERT applications">>)

\* mutant: the third query, the check for an application of the pair, is left out
JobApplicationApply_NoPairCheck(db, username, jobId, failAt) ==
    IF username = undefined \/ jobId = undefined
    THEN Res(db, Throw(BadRequestError("Invalid input parameters.")), <<>>)
    ELSE IF ~KeyIn(jobId, db.jobs)
    THEN Res(db, Throw(NotFoundError("Job cannot be found.")), <<"SELECT jobs">>)
    ELSE IF ~KeyIn(username, db.users)
    THEN Res(db, Throw(NotFoundError("Username cannot be found.")),
             <<"SELECT jobs", "SELECT users">>)
    ELSE Res([db EXCEPT !.applications = @ \cup {[username |-> username.v, job_id |-> jobId.v]}],
             Return([applied |-> jobId]),
             <<"SELECT jobs", "SELECT users", "INSERT applications">>)

JobApplicationApply(db, username, jobId, failAt) ==
    IF username = undefined \/ jobId = undefined
    THEN Res(db, Throw(BadRequestError("Invalid input parameters.")), <<>>)
    ELSE IF failAt = 1
    THEN Res(db, Throw(ExpressError(DbDown, V(500))), <<"SELECT jobs">>)
    ELSE IF ~KeyIn(jobId, db.jobs)
    THEN Res(db, Throw(NotFoundError("Job cannot be found.")), <<"SELECT jobs">>)
    ELSE IF failAt = 2
    THEN Res(db, Throw(ExpressError(DbDown, V(500))), <<"SELECT jobs", "SELECT users">>)
    ELSE IF ~KeyIn(username, db.users)
    THEN Res(db, Throw(NotFoundError("Username cannot be found.")),
             <<"SELECT jobs", "SELECT users">>)
    ELSE IF failAt = 3
    THEN Res(db, Throw(ExpressError(DbDown, V(500))),
             <<"SELECT jobs", "SELECT users", "SELECT applications">>)
    ELSE IF [username |-> username.v, job_id |-> jobId.v] \in db.applications
    THEN Res(db, Throw(BadRequestError("Job Application has already been submitted")),
             <<"SELECT jobs", "SELECT users", "SELECT applications">>)
    ELSE IF failAt = 4
    THEN Res(db, Throw(ExpressError(DbDown, V(500))),
             <<"SELECT jobs", "SELECT users", "SELECT applications", "INSERT applications">>)
    ELSE Res([db EXCEPT !.applications = @ \cup {[username |-> username.v, job_id |-> jobId.v]}],
             Return([applied |-> jobId]),
             <<"SELECT jobs", "SELECT users", "SELECT applications", "INSERT applications">>)

JobApplicationRemove(db, username, jobId, failAt) ==
    IF username = undefined \/ jobId = undefined
    THEN Res(db, Throw(BadRequestError("Invalid input parameters.")), <<>>)
    ELSE IF failAt = 1
    THEN Res(db, Throw(NotFoundError(DbDown)), <<"DELETE applications">>)
    ELSE IF ~(username.t = "value" /\ jobId.t = "value"
              /\ [username |-> username.v, job_id |-> jobId.v] \in db.applications)
    THEN Res(db, Throw(NotFoundError("No job aplication found")), <<"DELETE applications">>)
    ELSE Res([db EXCEPT !.applications = @ \ {[username |-> username.v, job_id |-> jobId.v]}],
             Return(undefined), <<"DELETE applications">>)

\* const { a, b } = object: a missing field is undefined
Destructure(object, fields) ==
    [f \in fields |-> IF f \in DOMAIN object THEN object[f] ELSE undefined]

(***************************************************************************)
(* Company.findAll and Job.findAll.  Here a text column is the sequence of *)
(* its characters, so that LOWER and LIKE work on it as PostgreSQL does.   *)
(***************************************************************************)
\* LOWER(text)
LowerChars == [A |-> "a", B |-> "b"]
Lower(s) == [i \in DOMAIN s |-> IF s[i] \in DOMAIN LowerChars THEN LowerChars[s[i]] ELSE s[i]]

\* s LIKE p: % stands for any run of characters, _ for any one character
RECURSIVE Like(_, _)
Like(s, p) ==
    IF p = <<>> THEN s = <<>>
    ELSE IF Head(p) = "%" THEN Like(s, Tail(p)) \/ (s # <<>> /\ Like(Tail(s), p))
    ELSE IF Head(p) = "_" THEN s # <<>> /\ Like(Tail(s), Tail(p))
    ELSE s # <<>> /\ Head(s) = Head(p) /\ Like(Tail(s), Tail(p))

\* LOWER(column) LIKE '%' || LOWER($n) || '%'
LowerLike(column, x) == Like(Lower(column), <<"%">> \o Lower(x) \o <<"%">>)

\* ORDER BY on a text column: character by character, a prefix first
CharRank == [a |-> 1, A |-> 2, b |-> 3, B |-> 4]
RECURSIVE TextLeq(_, _)
TextLeq(s, t) ==
    IF s = <<>> THEN TRUE
    ELSE IF t = <<>> THEN FALSE
    ELSE IF Head(s) = Head(t) THEN TextLeq(Tail(s), Tail(t))
    ELSE CharRank[Head(s)] < CharRank[Head(t)]

\* the orders in which a query may return the selected rows: any one that
\* ORDER BY column allows (rows equal in the column come in either order)
Ordered(rows, column) ==
    {r \in [1..Cardinality(rows) -> rows] :
        /\ \A i, j \in DOMAIN r : i # j => r[i] # r[j]
        /\ \A i, j \in DOMAIN r : i < j => TextLeq(r[i][column].v, r[j][column].v)}

\* conditions.join(" AND "): a comparison with NULL selects nothing
CompanyWhere(row, f) ==
    /\ f.minEmployees # undefined =>
           (row.num_employees # null /\ row.num_employees.v >= f.minEmployees.v)
    /\ f.maxEmployees # undefined =>
           (row.num_employees # null /\ row.num_employees.v <= f.maxEmployees.v)
    /\ f.nameLike # undefined => LowerLike(row.name.v, f.nameLike.v)

\* the results Company.findAll may return
CompanyFindAll(db, filters, failAt) ==
    IF failAt = 1
    THEN {Res(db, Throw(ExpressError(DbDown, undefined)), <<"SELECT companies">>)}
    ELSE LET f == Destructure(filters, {"minEmployees", "maxEmployees", "nameLike"})
             selected == {CompanyReturning(db.companies[h]) :
                            h \in {k \in DOMAIN db.companies : CompanyWhere(db.companies[k], f)}}
         IN  {Res(db, Return(Array(rows)), <<"SELECT companies">>) :
                rows \in Ordered(selected, "name")}

\* hasEquity === true || hasEquity == 'true'
Bool(b) == [t |-> "boolean", b |-> b]
Str(x) == [t |-> "string", s |-> x]

JobWhere(row, f) ==
    /\ f.minSalary # undefined => (row.salary # null /\ row.salary.v >= f.minSalary.v)
    /\ f.titleLike # undefined => LowerLike(row.title.v, f.titleLike.v)
    /\ f.title # undefined => row.title = f.title
    /\ (f.hasEquity = Bool(TRUE) \/ f.hasEquity = Str("true"))
         => (row.equity # null /\ row.equity.v > 0)

\* the results Job.findAll may return
JobFindAll(db, filters, failAt) ==
    IF failAt = 1
    THEN {Res(db, Throw(DriverError), <<"SELECT jobs">>)}
    ELSE LET f == Destructure(filters, {"minSalary", "hasEquity", "title", "titleLike"})
             selected == {JobReturning(db.jobs[i]) :
                            i \in {k \in DOMAIN db.jobs : JobWhere(db.jobs[k], f)}}
         IN  {Res(db, Return(Array(rows)), <<"SELECT jobs">>) : rows \in Ordered(selected, "title")}

(***************************************************************************)
(* Spec: the data-access layer, called as the model tests call it.         *)
(***************************************************************************)
MaxJobId == 2          \* jobs_id_seq is stopped here

\* new JoblyApi() in a browser whose localStorage holds no token: the state
\* of the constructor, no observer list, nothing in flight.  `notified` lists
\* the observer calls of the last step as <<key, observer, value delivered,
\* state[key] at the call>>; `last` is the operation of the last step and
\* how it ended; `answered` is the request whose answer the last step took,
\* null when the step was a call
JoblyApi ==
    [state |-> [token |-> null, username |-> null, user |-> null, isAdmin |-> null,
                jobs |-> Array(<<>>)],
     observers |-> << >>,
     localStorage |-> null,
     pending |-> << >>,
     notified |-> << >>,
     answered |-> null,
     last |-> [op |-> "constructor", out |-> Return(undefined)]]

NoCall == [op |-> "none", args |-> <<>>, out |-> Return(undefined), queries |-> <<>>]
NoExchange == [route |-> "none"]

Init ==
    /\ companies = << >>
    /\ jobs = << >>
    /\ jobs_id_seq = 0
    /\ users = << >>
    /\ applications = {}
    /\ ret = NoCall
    /\ resp = NoExchange
    /\ issued = {}
    /\ api = JoblyApi
    /\ inflight = << >>

\* a call ends: the tables become what it left, and its outcome is recorded
Called(op, args, r) ==
    /\ companies' = r.db.companies
    /\ jobs' = r.db.jobs
    /\ jobs_id_seq' = r.db.jobs_id_seq
    /\ users' = r.db.users
    /\ applications' = r.db.applications
    /\ ret' = [op |-> op, args |-> args, out |-> r.out, queries |-> r.queries]
    /\ UNCHANGED <<resp, issued, api, inflight>>

Pair(k, v) == [key |-> k, value |-> v]

NewCompanies ==
    {[handle |-> V(h), name |-> V("C"), description |-> V("Desc"),
      numEmployees |-> V(1), logoUrl |-> undefined] : h \in {"c1", "c2"}}
JobKeys == {V(i) : i \in 0..MaxJobId} \cup {undefined}

\* the calls of models/company.js
DoCompany ==
    \/ \E c \in NewCompanies : Called("Company.create", <<c>>, CompanyCreate(Db, c, 0))
    \/ \E h \in {V("c1"), V("c2"), V("c3"), undefined} :
            Called("Company.get", <<h>>, CompanyGet(Db, h, 0))
    \/ \E h \in {V("c1"), V("c3")},
          d \in { <<>>,
                  <<Pair("name", V("New"))>>,
                  <<Pair("name", undefined)>>,
                  <<Pair("numEmployees", undefined), Pair("name", V("New"))>> } :
            Called("Company.update", <<h, d>>, CompanyUpdate(Db, h, d, 0))
    \/ \E h \in {V("c1"), V("c2"), V("c3")} :
            Called("Company.remove", <<h>>, CompanyRemove(Db, h, 0))

\* the calls of models/job.js
DoJob ==
    \/ /\ jobs_id_seq < MaxJobId
       /\ \E h \in {V("c1"), V("c3"), null, undefined} :
            LET j == [title |-> V("j"), salary |-> V(100), equity |-> undefined,
                      companyHandle |-> h]
            IN  Called("Job.create", <<j>>, JobCreate(Db, j, 0))
    \/ \E i \in JobKeys : Called("Job.get", <<i>>, JobGet(Db, i, 0))
    \/ \E i \in {V(0), V(1)},
          d \in { <<>>, <<Pair("title", V("New"))>>, <<Pair("salary", undefined)>> } :
            Called("Job.update", <<i, d>>, JobUpdate(Db, i, d, 0))
    \/ \E i \in JobKeys \ {undefined} : Called("Job.remove", <<i>>, JobRemove(Db, i, 0))

\* the calls of models/user.js
DoUser ==
    \/ \E n \in {V("u1"), V("u3")}, p \in {"p1", "p2", ""} :
            Called("User.authenticate", <<n, p>>, UserAuthenticate(Db, n, p, 0))
    \/ \E n \in {"u1", "u2"} :
            LET u == [username |-> V(n), password |-> "p1", firstName |-> V("F"),
                      lastName |-> V("L"), email |-> V("e@mail"), isAdmin |-> V(FALSE)]
            IN  Called("User.register", <<u>>, UserRegister(Db, u, 0))
    \/ Called("User.findAll", <<>>, UserFindAll(Db, 0))
    \/ \E n \in {V("u1"), V("u2"), V("u3")} : Called("User.get", <<n>>, UserGet(Db, n, 0))
    \/ \E n \in {V("u1"), V("u3")},
          d \in { <<>>,
                  <<Pair("password", V("p2"))>>,
                  <<Pair("password", V(""))>>,
                  <<Pair("firstName", V("NewF")), Pair("password", V("p2"))>>,
                  <<Pair("firstName", undefined)>> } :
            Called("User.update", <<n, d>>, UserUpdate(Db, n, d, 0))
    \/ \E n \in {V("u1"), V("u2"), V("u3")} :
            Called("User.remove", <<n>>, UserRemove(Db, n, 0))

\* the calls of models/jobApplication.js
DoJobApplication ==
    \/ \E n \in {V("u1"), V("u3"), undefined}, i \in JobKeys :
            Called("JobApplication.apply", <<n, i>>, JobApplicationApply(Db, n, i, 0))
    \/ \E n \in {V("u1"), V("u3"), undefined}, i \in JobKeys :
            Called("JobApplication.remove", <<n, i>>, JobApplicationRemove(Db, n, i, 0))

Next ==
    \/ DoCompany
    \/ DoJob
    \/ DoUser
    \/ DoJobApplication

Spec == Init /\ [][Next]_vars

(***************************************************************************)
(* helpers/tokens.js: createToken.  jwt.sign adds iat and signs the        *)
(* payload with the key; a token is its payload and the key that signed it *)
(***************************************************************************)
SECRET_KEY == "secret-dev"

\* mutant: the admin flag is also read under the column's name
IsAdminOrFalse_SnakeCase(user) ==
    IF "is_admin" \in DOMAIN user /\ user.is_admin = V(TRUE) THEN V(TRUE)
    ELSE IF "isAdmin" \in DOMAIN user /\ user.isAdmin = V(TRUE) THEN V(TRUE)
    ELSE V(FALSE)

\* user.isAdmin || false: the value itself when it is truthy
IsAdminOrFalse(user) ==
    IF "isAdmin" \in DOMAIN user /\ user.isAdmin \notin {undefined, null, V(FALSE), Str("")}
    THEN user.isAdmin
    ELSE V(FALSE)

createToken(user, iat) ==
    [payload |-> [username |-> user.username, isAdmin |-> IsAdminOrFalse(user), iat |-> V(iat)],
     key |-> SECRET_KEY]

(***************************************************************************)
(* middleware/auth.js.  An Authorization header is a scheme prefix and the *)
(* text after it; the text is a token (payload and signing key) or not a   *)
(* token at all.  Each middleware yields what it passes to next().         *)
(***************************************************************************)
Jwt(token) == [t |-> "jwt", token |-> token]
Text(s) == [t |-> "text", s |-> s]
Header(scheme, cred) == V([scheme |-> scheme, cred |-> cred])

\* jwt.verify(token, key): the payload, or a throw
JwtVerify(cred, key) ==
    IF cred.t = "jwt" /\ cred.token.key = key
    THEN Return(cred.token.payload)
    ELSE Throw("JsonWebTokenError")

NoLocals == [none |-> TRUE]
LocalsOf(payload) == [user |-> payload]

authenticateJWT(authHeader) ==
    IF authHeader = undefined \/ authHeader = Header("", Text(""))
    THEN [locals |-> NoLocals, next |-> undefined]
    ELSE LET \* authHeader.replace(/^[Bb]earer /, "")
             token == IF authHeader.v.scheme \in {"Bearer ", "bearer "}
                      THEN [authHeader.v EXCEPT !.scheme = ""]
                      ELSE authHeader.v
             verified == JwtVerify(token.cred, SECRET_KEY)
         IN  IF token.scheme = "" /\ verified.kind = "return"
             THEN [locals |-> LocalsOf(verified.value), next |-> undefined]
             ELSE [locals |-> NoLocals, next |-> undefined]

ensureLoggedIn(locals) ==
    IF "user" \notin DOMAIN locals THEN UnauthorizedError("Unauthorized") ELSE undefined

\* mutant: any logged-in user passes
onlyAdmin_AnyUser(locals) ==
    IF "user" \notin DOMAIN locals THEN UnauthorizedError("Unauthorized") ELSE undefined

onlyAdmin(locals) ==
    IF ~("user" \in DOMAIN locals /\ locals.user.isAdmin = V(TRUE))
    THEN UnauthorizedError("Unauthorized")
    ELSE undefined

\* mutant: any logged-in user passes
ensureCorrectUserOrAdmin_AnyUser(locals, params) ==
    IF "user" \in DOMAIN locals THEN undefined ELSE UnauthorizedError("Unauthorized")

ensureCorrectUserOrAdmin(locals, params) ==
    IF "user" \in DOMAIN locals
       /\ (locals.user.isAdmin = V(TRUE) \/ locals.user.username = params.username)
    THEN undefined
    ELSE UnauthorizedError("Unauthorized")

\* one guard of a route, by name
Guard(g, locals, params) ==
    CASE g = "ensureLoggedIn" -> ensureLoggedIn(locals)
      [] g = "onlyAdmin" -> onlyAdmin(locals)
      [] g = "ensureCorrectUserOrAdmin" -> ensureCorrectUserOrAdmin(locals, params)

\* the guards of a route run in order; the first error ends the chain
RECURSIVE RunGuards(_, _, _)
RunGuards(gs, locals, params) ==
    IF gs = <<>> THEN undefined
    ELSE LET err == Guard(Head(gs), locals, params)
         IN  IF err # undefined THEN err ELSE RunGuards(Tail(gs), locals, params)

(***************************************************************************)
(* app.js and the routers of /auth and /users.  A handler's outcome is the *)
(* database it leaves, what it sends (or the error it passes to next) and  *)
(* the tokens it signs.                                                    *)
(***************************************************************************)
IssuedAt == 0          \* jwt.sign stamps iat with the clock, which stands still here

Json(status, body) == [status |-> status, json |-> body]
Handled(db, out, tokens) == [db |-> db, out |-> out, tokens |-> tokens]

\* mutant: an error without a status is not given 500
ErrorStatus_NoDefault(err) == IF err.status.t = "value" THEN err.status.v ELSE 0

\* the generic error handler: status = err.status || 500
ErrorStatus(err) == IF err.status.t = "value" /\ err.status.v # 0 THEN err.status.v ELSE 500

\* new BadRequestError(errs), errs the array validator.errors.map(e => e.stack):
\* a message that is an array is kept under the name messages
ValidationError(errs) == [name |-> "BadRequestError", messages |-> errs, status |-> V(400)]

\* what is sent for a handler's outcome: its response, or the error handler's
\* res.status(status).json({ error: { message, status } })
Sent(out) ==
    IF out.kind = "return" THEN out.value
    ELSE IF "messages" \in DOMAIN out.error
    THEN Json(ErrorStatus(out.error),
              [error |-> [messages |-> out.error.messages, status |-> ErrorStatus(out.error)]])
    ELSE Json(ErrorStatus(out.error),
              [error |-> [message |-> out.error.message, status |-> ErrorStatus(out.error)]])

\* jsonschema.validate(instance, schema).  The schema files are the
\* specification's: required fields, and the properties a schema names;
\* what a schema says of a field it does not name is left open, except for
\* userUpdate, which rejects it (PATCH /users/u1 with invalidField is
\* answered 400 in the tests of the route).  The validator reports every
\* error it finds
SchemaRequired ==
    [companyHandleOnly |-> {"handle"},
     jobIdOnly |-> {"id"},
     userAuth |-> {"username", "password"},
     userRegister |-> {"username", "password", "firstName", "lastName", "email"},
     userNew |-> {"username", "password", "firstName", "lastName", "email"},
     userUpdate |-> {},
     userApplication |-> {"username", "jobId"}]
SchemaProperties ==
    [companyHandleOnly |-> {"handle"},
     jobIdOnly |-> {"id"},
     userAuth |-> {"username", "password"},
     userRegister |-> {"username", "password", "firstName", "lastName", "email"},
     userNew |-> {"username", "password", "firstName", "lastName", "email", "isAdmin"},
     userUpdate |-> {"password", "firstName", "lastName", "email"},
     userApplication |-> {"username", "jobId"}]
ValidOutcomes(schema, fields) ==
    LET missing == {"requires property " \o f : f \in SchemaRequired[schema] \ fields}
        extra == {"additional property " \o f : f \in fields \ SchemaProperties[schema]}
    IN  {[valid |-> errs = {}, errors |-> errs] :
            errs \in IF schema = "userUpdate" THEN {missing \cup extra}
                     ELSE {missing, missing \cup extra}}

\* mutant: only one of the validator's errors is passed on
Invalid_OneMessage(db, errors) ==
    Handled(db, Throw(ValidationError({CHOOSE e \in errors : TRUE})), {})

\* if (!validator.valid) throw new BadRequestError(validator.errors.map(e => e.stack))
Invalid(db, errors) == Handled(db, Throw(ValidationError(errors)), {})

\* a model call made by a handler: answered with res.status(status).json(body),
\* its error passed to next
AnswerWith(r, status, body) ==
    IF r.out.kind = "return"
    THEN Handled(r.db, Return(Json(status, body)), {})
    ELSE Handled(r.db, r.out, {})

\* routes/auth.js
\* mutant: the body is registered as sent
RegisterBody_AsSent(body) ==
    [f \in (DOMAIN body) \cup {"isAdmin"} |->
        IF f \in DOMAIN body THEN body[f] ELSE V(FALSE)]

\* { ...req.body, isAdmin: false }
RegisterBody(body) ==
    [f \in (DOMAIN body) \cup {"isAdmin"} |-> IF f = "isAdmin" THEN V(FALSE) ELSE body[f]]

PostAuthToken(db, body, validator) ==
    IF ~validator.valid THEN Invalid(db, validator.errors)
    ELSE LET r == UserAuthenticate(db, body.username, body.password, 0)
         IN  IF r.out.kind = "throw" THEN Handled(r.db, r.out, {})
             ELSE LET token == createToken(r.out.value, IssuedAt)
                  IN  Handled(r.db, Return(Json(200, [token |-> token])), {token})

PostAuthRegister(db, body, validator) ==
    IF ~validator.valid THEN Invalid(db, validator.errors)
    ELSE LET r == UserRegister(db, RegisterBody(body), 0)
         IN  IF r.out.kind = "throw" THEN Handled(r.db, r.out, {})
             ELSE LET token == createToken(r.out.value, IssuedAt)
                  IN  Handled(r.db, Return(Json(201, [token |-> token])), {token})

\* routes/users.js
PostUsers(db, body, validator) ==
    IF ~validator.valid THEN Invalid(db, validator.errors)
    ELSE LET r == UserRegister(db, Destructure(body, {"username", "password", "firstName",
                                                     "lastName", "email", "isAdmin"}), 0)
         IN  IF r.out.kind = "throw" THEN Handled(r.db, r.out, {})
             ELSE LET token == createToken(r.out.value, IssuedAt)
                  IN  Handled(r.db,
                              Return(Json(201, [user |-> r.out.value, token |-> token])),
                              {token})

PostUsersJobs(db, params, validator) ==
    IF ~validator.valid THEN Invalid(db, validator.errors)
    ELSE LET r == JobApplicationApply(db, params.username, params.jobId, 0)
         IN  IF r.out.kind = "return" /\ r.out.value = undefined
             THEN Handled(r.db, Throw(ExpressError("An unexpected error occurred.", V(500))), {})
             ELSE AnswerWith(r, 201, [applied |-> r.out.value])

GetUsers(db, failAt) ==
    LET r == UserFindAll(db, failAt) IN AnswerWith(r, 200, [users |-> r.out.value])

GetUser(db, params) ==
    LET r == UserGet(db, params.username, 0) IN AnswerWith(r, 200, [user |-> r.out.value])

PatchUser(db, params, body, validator) ==
    IF ~validator.valid THEN Invalid(db, validator.errors)
    ELSE LET r == UserUpdate(db, params.username, body, 0)
         IN  AnswerWith(r, 200, [user |-> r.out.value])

DeleteUser(db, params) ==
    AnswerWith(UserRemove(db, params.username, 0), 200, [deleted |-> params.username])

\* routes/companies.js
GetCompany(db, params, validator, failAt) ==
    IF ~validator.valid THEN Invalid(db, validator.errors)
    ELSE LET r == CompanyGet(db, params.handle, failAt)
         IN  AnswerWith(r, 200, [company |-> r.out.value])

\* routes/jobs.js
DeleteJob(db, params, validator, failAt) ==
    IF ~validator.valid THEN Invalid(db, validator.errors)
    ELSE AnswerWith(JobRemove(db, params.id, failAt), 200, [deleted |-> params.id])

\* app.js: the middleware after the routers, next(new NotFoundError())
NoRoute(db) == Handled(db, Throw(NotFoundError("Not Found")), {})

\* the guards each route is registered with, router.use(ensureLoggedIn) of the
\* users router first; UsersNoRoute is a path under /users that no route of
\* the router matches, NoRoute a path under none of the routers
Guards ==
    [NoRoute |-> <<>>,
     UsersNoRoute |-> <<"ensureLoggedIn">>,
     GetCompany |-> <<>>,
     DeleteJob |-> <<"onlyAdmin", "ensureLoggedIn">>,
     PostAuthToken |-> <<>>,
     PostAuthRegister |-> <<>>,
     PostUsers |-> <<"ensureLoggedIn", "onlyAdmin">>,
     PostUsersJobs |-> <<"ensureLoggedIn", "ensureLoggedIn">>,
     GetUsers |-> <<"ensureLoggedIn", "onlyAdmin">>,
     GetUser |-> <<"ensureLoggedIn", "ensureCorrectUserOrAdmin">>,
     PatchUser |-> <<"ensureLoggedIn", "ensureCorrectUserOrAdmin">>,
     DeleteUser |-> <<"ensureLoggedIn", "ensureCorrectUserOrAdmin">>]

Nothing == [none |-> TRUE]
Request(auth, params, body) == [auth |-> auth, params |-> params, body |-> body]

\* one request through app.js: authenticateJWT, the route's guards, and the
\* handler when every guard called next(); an error passed to next is
\* answered by the error handler
Exchange(route, req, h) ==
    LET auth == authenticateJWT(req.auth)
        err == IF auth.next # undefined THEN auth.next
               ELSE RunGuards(Guards[route], auth.locals, req.params)
        ran == err = undefined
        done == IF ran THEN h ELSE Handled(Db, Throw(err), {})
        sent == Sent(done.out)
    IN  /\ companies' = done.db.companies
        /\ jobs' = done.db.jobs
        /\ jobs_id_seq' = done.db.jobs_id_seq
        /\ users' = done.db.users
        /\ applications' = done.db.applications
        /\ issued' = issued \cup done.tokens
        /\ resp' = [route |-> route, req |-> req, locals |-> auth.locals, ran |-> ran,
                    err |-> IF done.out.kind = "throw" THEN done.out.error ELSE undefined,
                    status |-> sent.status, json |-> sent.json]
        /\ UNCHANGED <<ret, api, inflight>>

(***************************************************************************)
(* SpecHttp: requests to /auth and /users, one whole exchange per step,    *)
(* over the seeded tables of routes/_testCommon.js.                        *)
(***************************************************************************)
SeedUser(n, admin) ==
    [username |-> V(n), password |-> "p1", firstName |-> V("F"), lastName |-> V("L"),
     email |-> V("e@mail"), isAdmin |-> V(admin)]

\* commonBeforeAll: a company, a user, an admin and a job of the company
Seeded ==
    LET d0 == [companies |-> << >>, jobs |-> << >>, jobs_id_seq |-> 0, users |-> << >>,
               applications |-> {}]
        d1 == CompanyCreate(d0, CHOOSE c \in NewCompanies : c.handle = V("c1"), 0).db
        d2 == UserRegister(d1, SeedUser("u1", FALSE), 0).db
        d3 == UserRegister(d2, SeedUser("a1", TRUE), 0).db
    IN  JobCreate(d3, [title |-> V("j"), salary |-> V(100), equity |-> undefined,
                       companyHandle |-> V("c1")], 0).db

InitHttp ==
    /\ companies = Seeded.companies
    /\ jobs = Seeded.jobs
    /\ jobs_id_seq = Seeded.jobs_id_seq
    /\ users = Seeded.users
    /\ applications = Seeded.applications
    /\ ret = NoCall
    /\ resp = NoExchange
    /\ issued = {createToken(UserReturning(Seeded.users[n]), IssuedAt) : n \in {"u1", "a1"}}
    /\ api = JoblyApi
    /\ inflight = << >>

\* the Authorization headers a client sends: none, or a token the server
\* signed under the Bearer scheme; where odd is asked for, also the empty
\* string, text that is no token, a token signed with another key, and the
\* seeded admin's token under other schemes and under none
Headers(odd) ==
    {undefined} \cup {Header("Bearer ", Jwt(t)) : t \in issued}
    \cup IF odd
         THEN {Header("", Text("")), Header("Bearer ", Text("garbage")),
               Header("Bearer ", Jwt([payload |-> [username |-> V("a1"), isAdmin |-> V(TRUE),
                                                   iat |-> V(IssuedAt)],
                                      key |-> "another-key"]))}
              \cup {Header(s, Jwt(createToken(UserReturning(Seeded.users["a1"]), IssuedAt))) :
                       s \in {"bearer ", "", "Basic "}}
         ELSE {}

\* the routes of routes/auth.js
HttpAuth ==
    \/ \E a \in {undefined},
          b \in {[username |-> V("u1"), password |-> "p2"],
                 [username |-> V("u2"), password |-> "p1"],
                 [username |-> V("u1")]} :
         \E validator \in ValidOutcomes("userAuth", DOMAIN b) :
           Exchange("PostAuthToken", Request(a, Nothing, b), PostAuthToken(Db, b, validator))
    \/ \E a \in {undefined},
          b \in {[username |-> V("u2"), password |-> "p1", firstName |-> V("F"),
                  lastName |-> V("L"), email |-> V("e@mail")],
                 SeedUser("u2", TRUE),
                 [username |-> V("u1"), password |-> "p1", firstName |-> V("F"),
                  lastName |-> V("L"), email |-> V("e@mail")],
                 [username |-> V("u2")]} :
         \E validator \in ValidOutcomes("userRegister", DOMAIN b) :
           Exchange("PostAuthRegister", Request(a, Nothing, b), PostAuthRegister(Db, b, validator))

\* the routes of routes/users.js
HttpUsers ==
    \/ \E a \in Headers(TRUE), b \in {SeedUser("u2", TRUE), SeedUser("u2", FALSE), [username |-> V("u2")]} :
         \E validator \in ValidOutcomes("userNew", DOMAIN b) :
           Exchange("PostUsers", Request(a, Nothing, b), PostUsers(Db, b, validator))
    \/ \E a \in Headers(FALSE), p \in {[username |-> V("u1"), jobId |-> V(i)] : i \in {1, 2}} :
         \E validator \in ValidOutcomes("userApplication", DOMAIN p) :
           Exchange("PostUsersJobs", Request(a, p, Nothing), PostUsersJobs(Db, p, validator))
    \* User.findAll may find the database down
    \/ \E a \in Headers(FALSE), failAt \in {0, 1} :
           Exchange("GetUsers", Request(a, Nothing, Nothing), GetUsers(Db, failAt))
    \/ \E a \in Headers(FALSE), p \in {[username |-> V(n)] : n \in {"u1", "u2"}} :
           Exchange("GetUser", Request(a, p, Nothing), GetUser(Db, p))
    \/ \E a \in Headers(FALSE), p \in {[username |-> V("u1")]}, sent \in 1..3 :
         LET b == << <<>>, <<Pair("firstName", V("NewF"))>>,
                     <<Pair("isAdmin", V(TRUE))>> >>[sent]
         IN
         \E validator \in ValidOutcomes("userUpdate", {b[i].key : i \in DOMAIN b}) :
           Exchange("PatchUser", Request(a, p, b), PatchUser(Db, p, b, validator))
    \/ \E a \in Headers(FALSE), p \in {[username |-> V("u2")]} :
           Exchange("DeleteUser", Request(a, p, Nothing), DeleteUser(Db, p))

\* GET /companies/:handle, of a company and of none; Company.get may find the
\* database down
HttpGetCompany ==
    \E a \in {undefined}, p \in {[handle |-> V(h)] : h \in {"c1", "c2"}}, failAt \in {0, 1} :
      \E validator \in ValidOutcomes("companyHandleOnly", DOMAIN p) :
        Exchange("GetCompany", Request(a, p, Nothing), GetCompany(Db, p, validator, failAt))

\* DELETE /jobs/:id of the seeded job; Job.remove may find the database down
HttpDeleteJob ==
    \E a \in Headers(FALSE), p \in {[id |-> V(1)]}, failAt \in {0, 1} :
      \E validator \in ValidOutcomes("jobIdOnly", DOMAIN p) :
        Exchange("DeleteJob", Request(a, p, Nothing), DeleteJob(Db, p, validator, failAt))

\* a request that no route matches
HttpNoRoute ==
    \/ \E a \in Headers(FALSE) : Exchange("UsersNoRoute", Request(a, Nothing, Nothing), NoRoute(Db))
    \/ Exchange("NoRoute", Request(undefined, Nothing, Nothing), NoRoute(Db))

NextHttp ==
    \/ HttpGetCompany
    \/ HttpDeleteJob
    \/ HttpNoRoute
    \/ HttpAuth
    \/ HttpUsers

SpecHttp == InitHttp /\ [][NextHttp]_vars

(***************************************************************************)
(* SpecRace: Company.create, User.register and JobApplication.apply one    *)
(* query per step, so that the queries of calls that run at the same time  *)
(* interleave; db.query itself does not fail here.  The tables are the     *)
(* seeded ones.                                                            *)
(***************************************************************************)
\* the calls that may be in flight at once
MaxCalls == 2

\* what node-postgres rejects an INSERT of an existing key with
UniqueViolation == [code |-> "23505", message |-> "duplicate key value violates unique constraint"]

\* the call after a query was answered: it has ended (thrown or returned),
\* or it awaits its next query
Ends(db, call, out) == [db |-> db, call |-> [call EXCEPT !.out = out]]

\* Company.create: the SELECT of the duplicate check, then the INSERT
CompanyCreateQuery(db, call) ==
    LET c == call.args
    IN  IF call.query = 1
        THEN IF KeyIn(c.handle, db.companies)
             THEN Ends(db, call, Throw(BadRequestError("Duplicate company")))
             ELSE Ends(db, [call EXCEPT !.query = 2], call.out)
        ELSE IF KeyIn(c.handle, db.companies)
        THEN Ends(db, call, Throw(ExpressError(UniqueViolation, undefined)))
        ELSE Ends(CompanyCreate(db, c, 0).db, call, CompanyCreate(db, c, 0).out)

\* User.register: the SELECT of the duplicate check, then bcrypt.hash and the INSERT
UserRegisterQuery(db, call) ==
    LET u == call.args
    IN  IF call.query = 1
        THEN IF KeyIn(u.username, db.users)
             THEN Ends(db, call, Throw(BadRequestError("Duplicate username")))
             ELSE Ends(db, [call EXCEPT !.query = 2], call.out)
        ELSE IF KeyIn(u.username, db.users)
        THEN Ends(db, call, Throw(ExpressError(UniqueViolation, V(500))))
        ELSE Ends(UserRegister(db, u, 0).db, call, UserRegister(db, u, 0).out)

\* JobApplication.apply: the three SELECTs, then the INSERT; in its catch the
\* branch of code 23505 builds its message from `id`, a name that is not
\* declared, so evaluating the template throws a ReferenceError
JobApplicationApplyQuery(db, call) ==
    LET username == call.args[1]
        jobId == call.args[2]
        row == [username |-> username.v, job_id |-> jobId.v]
    IN  CASE call.query = 1 ->
               IF ~KeyIn(jobId, db.jobs)
               THEN Ends(db, call, Throw(NotFoundError("Job cannot be found.")))
               ELSE Ends(db, [call EXCEPT !.query = 2], call.out)
          [] call.query = 2 ->
               IF ~KeyIn(username, db.users)
               THEN Ends(db, call, Throw(NotFoundError("Username cannot be found.")))
               ELSE Ends(db, [call EXCEPT !.query = 3], call.out)
          [] call.query = 3 ->
               IF row \in db.applications
               THEN Ends(db, call,
                         Throw(BadRequestError("Job Application has already been submitted")))
               ELSE Ends(db, [call EXCEPT !.query = 4], call.out)
          [] OTHER ->
               IF row \in db.applications
               THEN Ends(db, call, Throw([name |-> "ReferenceError",
                                          message |-> "id is not defined",
                                          status |-> undefined]))
               ELSE Ends(JobApplicationApply(db, username, jobId, 0).db, call,
                         JobApplicationApply(db, username, jobId, 0).out)

NextRace ==
    \/ \E c \in NewCompanies :
           /\ Len(inflight) < MaxCalls
           /\ inflight' = Append(inflight, [op |-> "Company.create", args |-> c, query |-> 1,
                                            out |-> [kind |-> "pending"]])
           /\ UNCHANGED <<dbVars, ret, resp, issued, api>>
    \/ \E n \in {"u1", "u2"} :
           /\ Len(inflight) < MaxCalls
           /\ inflight' = Append(inflight, [op |-> "User.register",
                                            args |-> SeedUser(n, FALSE), query |-> 1,
                                            out |-> [kind |-> "pending"]])
           /\ UNCHANGED <<dbVars, ret, resp, issued, api>>
    \/ \E jobId \in {V(1), V(2)} :
           /\ Len(inflight) < MaxCalls
           /\ inflight' = Append(inflight, [op |-> "JobApplication.apply",
                                            args |-> <<V("u1"), jobId>>, query |-> 1,
                                            out |-> [kind |-> "pending"]])
           /\ UNCHANGED <<dbVars, ret, resp, issued, api>>
    \/ \E i \in DOMAIN inflight :
           LET call == inflight[i]
               r == CASE call.op = "Company.create" -> CompanyCreateQuery(Db, call)
                      [] call.op = "User.register" -> UserRegisterQuery(Db, call)
                      [] OTHER -> JobApplicationApplyQuery(Db, call)
           IN  /\ call.out.kind = "pending"
               /\ inflight' = [inflight EXCEPT ![i] = r.call]
               /\ companies' = r.db.companies
               /\ users' = r.db.users
               /\ applications' = r.db.applications
               /\ UNCHANGED <<jobs, jobs_id_seq, ret, resp, issued, api>>

SpecRace == InitHttp /\ [][NextRace]_vars

(***************************************************************************)
(* SpecFind: findAll called over the tables a run of the program can have  *)
(* built, with every combination of filters.                               *)
(***************************************************************************)
MaxLen == 2            \* the longest name or title in a table

Names == UNION {[1..n -> {"a", "B"}] : n \in 1..MaxLen}

CompanyTables ==
    UNION {{[h \in hs |-> [handle |-> V(h), name |-> V(c[h].name), description |-> V("Desc"),
                           num_employees |-> c[h].employees, logo_url |-> null]] :
                c \in [hs -> [name : Names, employees : {null, V(1), V(3)}]]} :
           hs \in {{"c1"}, {"c1", "c2"}}}
\* equity is NUMERIC, here in tenths
JobTables ==
    UNION {{[i \in 1..n |-> [id |-> V(i), title |-> V(j[i].title), salary |-> j[i].salary,
                             equity |-> j[i].equity, company_handle |-> V("c1")]] :
                j \in {t \in [1..n -> [title : Names, salary : {null, V(100), V(300)},
                                       equity : {null, V(0), V(5)}]] :
                          n = 2 => /\ Len(t[2].title) = 1
                                   /\ t[2].salary = V(300)
                                   /\ t[2].equity # V(0)}} :
           n \in 1..2}

InitFind ==
    /\ \/ /\ companies \in CompanyTables
          /\ jobs = << >>
          /\ jobs_id_seq = 0
       \/ /\ companies \in {t \in CompanyTables : DOMAIN t = {"c1"} /\ t["c1"].name = V(<<"a">>)
                                                  /\ t["c1"].num_employees = V(1)}
          /\ jobs \in JobTables
          /\ jobs_id_seq = Len(jobs)
    /\ users = << >>
    /\ applications = {}
    /\ ret = NoCall
    /\ resp = NoExchange
    /\ issued = {}
    /\ api = JoblyApi
    /\ inflight = << >>

NextFind ==
    \* the filters given; a pattern may hold the characters LIKE reads as wildcards
    \/ \E lo \in {undefined, V(2)}, hi \in {undefined, V(2)},
          like \in {undefined} \cup {V(p) : p \in {<<>>, <<"a">>, <<"b">>, <<"A", "b">>, <<"_">>,
                                                  <<"%">>, <<"a", "_">>}} :
           LET f == [minEmployees |-> lo, maxEmployees |-> hi, nameLike |-> like]
           IN  \E r \in CompanyFindAll(Db, f, 0) : Called("Company.findAll", <<f>>, r)
    \/ \E lo \in {undefined, V(200)}, title \in {undefined, V(<<"a">>)},
          like \in {undefined, V(<<"a">>), V(<<"_">>)}, e \in 1..4 :
           LET f == [minSalary |-> lo, title |-> title, titleLike |-> like,
                     hasEquity |-> <<undefined, Bool(TRUE), Bool(FALSE), Str("true")>>[e]]
           IN  \E r \in JobFindAll(Db, f, 0) : Called("Job.findAll", <<f>>, r)

SpecFind == InitFind /\ [][NextFind]_vars

(***************************************************************************)
(* SpecHelpers: the pure helpers, sqlForPartialUpdate and createToken,      *)
(* called on bounded arguments.                                            *)
(***************************************************************************)
MaxFields == 3         \* the most fields an object given to sqlForPartialUpdate has

\* the values a field is given: a scalar field is undefined, null or a
\* string, the address is undefined or a nested object
FieldValues ==
    [firstName |-> {undefined, null, V("x")},
     age |-> {undefined, null, V("x")},
     address |-> {undefined, Obj(<<Pair("street", V("s"))>>),
                  Obj(<<Pair("street", undefined), Pair("city", null)>>)}]

NextHelpers ==
    \* the mappings: none, a field, a field mapped to the empty string, the
    \* entries of a nested object, an entry the nested objects do not have;
    \* the objects: up to MaxFields of the fields, in any order
    \/ \E jsToSql \in
          { <<>>,
            [firstName |-> "first_name"],
            [firstName |-> "", age |-> "age"],
            [f \in {"address.street", "address.city"} |->
                IF f = "address.street" THEN "address_street" ELSE "address_city"],
            [f \in {"address.zip", "firstName"} |-> IF f = "firstName" THEN "first_name" ELSE "zip"] },
          data \in UNION {{d \in [1..n -> UNION {[key : {k}, value : FieldValues[k]] :
                                                    k \in DOMAIN FieldValues}] :
                               \A i, j \in 1..n : i # j => d[i].key # d[j].key} :
                          n \in 0..MaxFields} :
           Called("sqlForPartialUpdate", <<data, jsToSql>>,
                  Res(Db, sqlForPartialUpdate(data, jsToSql), <<>>))
    \* the user objects createToken is given: isAdmin missing, a boolean, null,
    \* undefined or a string, and the flag under the name of its column
    \/ \E n \in {"u1", "a1"}, iat \in {IssuedAt, IssuedAt + 1},
          flags \in UNION {[fs -> {V(TRUE), V(FALSE)}] : fs \in SUBSET {"isAdmin", "is_admin"}}
                    \cup {[isAdmin |-> a] : a \in {undefined, null, Str(""), Str("yes")}} :
           LET user == [f \in {"username"} \cup DOMAIN flags |->
                           IF f = "username" THEN V(n) ELSE flags[f]]
           IN  Called("createToken", <<user>>, Res(Db, Return(createToken(user, iat)), <<>>))

SpecHelpers == Init /\ [][NextHelpers]_vars

(***************************************************************************)
(* SpecClient: the React client's JoblyApi singleton (JoblyApi.js).  One   *)
(* step is one run of JavaScript to completion: a call of a method up to   *)
(* its first await, or the arrival of a response and everything the        *)
(* awaiting method does after it.  The server is the environment: a        *)
(* request in flight is answered with data or with an error, in any order. *)
(* Observers are callbacks that read and return.                           *)
(***************************************************************************)
MaxPending == 2         \* requests in flight at once
MaxSubscriptions == 2   \* subscribe calls in a run
MaxApplied == 2         \* applyJob is not called once state.jobs is this long

subscribe(a, eventType, observer) ==
    [a EXCEPT !.observers = IF eventType \in DOMAIN @
                            THEN [@ EXCEPT ![eventType] = Append(@, observer)]
                            ELSE (eventType :> <<observer>>) @@ @]

\* indexOf(observer), and splice(index, 1) when it is there
unsubscribe(a, eventType, observer) ==
    IF eventType \in DOMAIN a.observers
       /\ \E i \in DOMAIN a.observers[eventType] : a.observers[eventType][i] = observer
    THEN LET list == a.observers[eventType]
             index == CHOOSE i \in DOMAIN list :
                         list[i] = observer /\ \A j \in 1..(i - 1) : list[j] # observer
         IN  [a EXCEPT !.observers[eventType] =
                 [j \in 1..(Len(list) - 1) |-> IF j < index THEN list[j] ELSE list[j + 1]]]
    ELSE a

\* what a callback does when it is called, besides reading its argument.
\* The components' callbacks ("o1", "o2", "o3") set React state and return;
\* "once" stands for a callback that unsubscribes itself when called, "more"
\* for one that subscribes "o3" under the same key unless it is there
Reaction(a, eventType, observer) ==
    CASE observer = "once" -> unsubscribe(a, eventType, observer)
      [] observer = "more" ->
            IF \E i \in DOMAIN a.observers[eventType] : a.observers[eventType][i] = "o3"
            THEN a ELSE subscribe(a, eventType, "o3")
      [] OTHER -> a

\* Array.prototype.forEach over the list itself: the indices below the
\* length the list had at the start, each visited if the list still has it
\* when its turn comes
RECURSIVE forEach(_, _, _, _, _)
forEach(a, eventType, valueToNotify, index, len) ==
    IF index > len \/ index > Len(a.observers[eventType]) THEN a
    ELSE LET observer == a.observers[eventType][index]
             called == [a EXCEPT !.notified = Append(@, <<eventType, observer, valueToNotify,
                                                          a.state[eventType]>>)]
         IN  forEach(Reaction(called, eventType, observer), eventType, valueToNotify,
                     index + 1, len)

notify(a, eventType, newValue) ==
    IF eventType \in DOMAIN a.observers
    THEN LET valueToNotify == IF newValue = null THEN a.state[eventType] ELSE newValue
         IN  forEach(a, eventType, valueToNotify, 1, Len(a.observers[eventType]))
    ELSE a

\* Object.keys(newState).forEach(key => this.notify(key, newState[key]))
RECURSIVE notifyKeys(_, _)
notifyKeys(a, newState) ==
    IF Len(newState) = 0 THEN a
    ELSE notifyKeys(notify(a, Head(newState).key, Head(newState).value), Tail(newState))

\* Object.assign(this.state, newState)
Assigned(state, newState) ==
    [k \in DOMAIN state |->
        IF \E i \in DOMAIN newState : newState[i].key = k THEN Field(newState, k)
        ELSE state[k]]

\* mutant: the observers are called before the assignment
setState_NotifyFirst(a, newState) ==
    [notifyKeys(a, newState) EXCEPT !.state = Assigned(@, newState)]

setState(a, newState) ==
    notifyKeys([a EXCEPT !.state = Assigned(@, newState)], newState)

\* request up to `await axios(...)`: the request leaves with the token the
\* state holds now, and the caller waits for its answer
request(a, caller, endpoint, args) ==
    [a EXCEPT !.pending = Append(@, [caller |-> caller, endpoint |-> endpoint, args |-> args,
                                     token |-> a.state.token, answer |-> null]),
              !.last = [op |-> caller, out |-> [kind |-> "pending"]]]

Ended(a, op, out) == [a EXCEPT !.last = [op |-> op, out |-> out]]

\* getUser up to its await
getUser(a) ==
    IF ~Truthy(a.state.token) THEN Ended(a, "getUser", Throw("No valid token available"))
    ELSE request(a, "getUser", "users/:username",
                 [username |-> IF Truthy(a.state.username) THEN a.state.username ELSE V("")])

\* decodeToken up to its await; jwtDecode reads the payload and checks no
\* signature
decodeToken(a) ==
    IF Truthy(a.state.token)
    THEN LET decoded == a.state.token.payload
         IN  getUser(setState(a, <<Pair("username", decoded.username),
                                   Pair("isAdmin", decoded.isAdmin)>>))
    ELSE a

saveToken(a, token) ==
    decodeToken(setState([a EXCEPT !.localStorage = token], <<Pair("token", token)>>))

removeToken(a) ==
    setState([a EXCEPT !.localStorage = null],
             <<Pair("token", null), Pair("username", null), Pair("isAdmin", null),
               Pair("jobs", null)>>)

\* a step of the client: the server's tables and records stay as they are
Client(a) ==
    /\ api' = a
    /\ UNCHANGED <<companies, jobs, jobs_id_seq, users, applications, ret, resp, issued,
                   inflight>>

Fresh == [api EXCEPT !.notified = << >>, !.answered = null]

\* mutant: login asks the server whatever the state holds
login_Always ==
    \E username \in {"a1"} :
        /\ Len(api.pending) < MaxPending
        /\ Client(request(Fresh, "login", "auth/token", [username |-> V(username)]))

\* login({username, password}) up to its await; the password only matters
\* to the server, whose answer is drawn when it arrives
login ==
    \E username \in {"a1"} :
        IF Truthy(api.state.token)
        THEN Client(Ended(Fresh, "login",
                          Throw("Valid token already stored. No need to auth.")))
        ELSE /\ Len(api.pending) < MaxPending
             /\ Client(request(Fresh, "login", "auth/token", [username |-> V(username)]))

register ==
    \E username \in {"u2"} :
        IF Truthy(api.state.token)
        THEN Client(Ended(Fresh, "register",
                          Throw("Valid token already stored. No need to register.")))
        ELSE /\ Len(api.pending) < MaxPending
             /\ Client(request(Fresh, "register", "auth/register",
                               [username |-> V(username)]))

update ==
    \E name \in {"G"} :
        IF ~Truthy(api.state.token)
        THEN Client(Ended(Fresh, "update", Throw("No token to update user.")))
        ELSE IF ~Truthy(api.state.username)
        THEN Client(Ended(Fresh, "update", Throw("No username stored to update user.")))
        ELSE /\ Len(api.pending) < MaxPending
             /\ Client(request(Fresh, "update", "users/:username",
                               [username |-> api.state.username, firstName |-> V(name),
                                lastName |-> V("L"), email |-> V("e@mail")]))

applyJob ==
    \E jobId \in {undefined, V(2)} :
        IF jobId \in {undefined, null, V(0)}
        THEN Client(Ended(Fresh, "applyJob",
                          Throw("Can't apply to job since job ID passed is null.")))
        ELSE IF ~Truthy(api.state.token)
        THEN Client(Ended(Fresh, "applyJob",
                          Throw("Can't apply to job due to no token in state.")))
        ELSE IF ~Truthy(api.state.username)
        THEN Client(Ended(Fresh, "applyJob",
                          Throw("Can't apply ot job since username is not in state.")))
        ELSE /\ Len(api.pending) < MaxPending
             /\ api.state.jobs # null => Len(api.state.jobs.items) < MaxApplied
             /\ Client(request(Fresh, "applyJob", "users/:username/jobs/:id",
                               [username |-> api.state.username, jobId |-> jobId]))

logout ==
    LET removed == removeToken(Fresh)
        cleared == setState(removed, <<Pair("user", null)>>)
    IN  Client(Ended(notify(notify(notify(notify(notify(cleared,
                        "token", null), "username", null), "user", null), "isAdmin", null),
                        "jobs", null),
                     "logout", Return(undefined)))

\* login and register after the server's answer: result is the body, or a
\* throw of request
authenticated(a, op, username, result) ==
    IF result.kind = "throw" THEN Ended(a, op, result)
    ELSE LET token == result.value.token
             set == setState(a, <<Pair("token", token), Pair("username", username)>>)
             saved == saveToken(notify(set, "token", token), token)
         IN  Ended(saved, op, Return(saved.state.token))

\* getUser after the server's answer
gotUser(a, result) ==
    IF result.kind = "throw" THEN Ended(a, "getUser", result)
    ELSE LET user == result.value.user
             set == setState(a, <<Pair("username", user.username),
                                  Pair("user", [email |-> user.email,
                                                firstName |-> user.firstName,
                                                lastName |-> user.lastName]),
                                  Pair("isAdmin", user.isAdmin),
                                  Pair("jobs", user.jobs)>>)
             told == notify(notify(notify(notify(set,
                        "username", user.username), "user", set.state.user),
                        "isAdmin", user.isAdmin), "jobs", user.jobs)
         IN  Ended(told, "getUser", Return(told.state.user))

\* update after the server's answer
updated(a, args, result) ==
    IF result.kind = "throw" THEN Ended(a, "update", result)
    ELSE LET set == setState(a, <<Pair("user", [firstName |-> args.firstName,
                                                lastName |-> args.lastName,
                                                email |-> args.email])>>)
             told == notify(set, "user", set.state.user)
         IN  Ended(told, "update", Return(told.state.user))

\* applyJob after the server's answer
applied(a, jobId, result) ==
    IF result.kind = "throw" THEN Ended(a, "applyJob", result)
    ELSE LET items == IF Truthy(a.state.jobs) THEN a.state.jobs.items ELSE << >>
             set == setState(a, <<Pair("jobs", Array(Append(items, jobId.v)))>>)
             told == notify(set, "jobs", set.state.jobs)
         IN  Ended(told, "applyJob", Return(told.state.jobs))

\* what the server of this repository can answer to a request: an error
\* (401, 400, 404, 500), or the body of the route
Answers(req) ==
    {Throw("API Error")} \cup
    CASE req.caller \in {"login", "register"} ->
            {Return([token |-> createToken([username |-> req.args.username,
                                            isAdmin |-> V(req.args.username = V("a1"))],
                                           IssuedAt)])}
      [] req.caller = "getUser" ->
            IF req.args.username = V("") THEN {}
            ELSE {Return([user |-> [username |-> req.args.username, email |-> V("e@mail"),
                                    firstName |-> V("F"), lastName |-> V("L"),
                                    isAdmin |-> V(req.args.username = V("a1")),
                                    jobs |-> Array(<<1>>)]])}
      [] req.caller = "update" -> {Return([user |-> req.args.username])}
      [] req.caller = "applyJob" -> {Return([applied |-> [applied |-> req.args.jobId]])}

\* the method that awaits the answer to the request runs on
Resumed(a, req, result) ==
    CASE req.caller \in {"login", "register"} ->
            authenticated(a, req.caller, req.args.username, result)
      [] req.caller = "getUser" -> gotUser(a, result)
      [] req.caller = "update" -> updated(a, req.args, result)
      [] req.caller = "applyJob" -> applied(a, req.args.jobId, result)

\* the answer to a request in flight arrives, and the method that awaits it
\* runs on
Respond ==
    \E i \in DOMAIN api.pending :
        LET req == api.pending[i]
            a == [Fresh EXCEPT !.answered = req,
                               !.pending = [j \in 1..(Len(@) - 1) |->
                                               IF j < i THEN @[j] ELSE @[j + 1]]]
        IN  \E result \in Answers(req) : Client(Resumed(a, req, result))

NextClient ==
    \* subscribe(eventType, observer); each call brings a callback of its own,
    \* named by its rank among the calls
    \/ \E eventType \in {"token", "username", "user", "isAdmin", "jobs"} :
           LET subscribed == Cardinality(UNION {{<<k, i>> : i \in DOMAIN api.observers[k]} :
                                                  k \in DOMAIN api.observers})
               observer == <<"o1", "o2", "o3">>[subscribed + 1]
           IN
           /\ subscribed < MaxSubscriptions
           /\ Client(Ended(subscribe(Fresh, eventType, observer), "subscribe", Return(undefined)))
    \/ login
    \/ register
    \/ update
    \/ applyJob
    \/ logout
    \/ Respond

SpecClient == Init /\ [][NextClient]_vars

(***************************************************************************)
(* SpecJobs: the client with the server of this repository behind it.  A   *)
(* request in flight is handled by the server in one step (the tables      *)
(* change, the answer is on its way) and its answer arrives in another, so *)
(* that answers arrive in any order.  The client logs in, applies to job 2 *)
(* and calls getUser (as NavBar and the profile page do).                  *)
(***************************************************************************)
\* the answer of the server to a request, and the tables after it
Served(db, req) ==
    CASE req.caller = "getUser" ->
            LET r == UserGet(db, req.args.username, 0)
                ids == IF r.out.kind = "return" THEN r.out.value.jobs ELSE {}
                rows == [i \in 1..Cardinality(ids) |->
                            CHOOSE x \in ids : Cardinality({y \in ids : y < x}) = i - 1]
            IN  {[db |-> db,
                  answer |-> IF r.out.kind = "return"
                             THEN Return([user |-> [r.out.value EXCEPT !.jobs = Array(rows)]])
                             ELSE Throw("API Error")]}
      [] req.caller = "applyJob" ->
            LET r == JobApplicationApply(db, req.args.username, req.args.jobId, 0)
            IN  {[db |-> r.db,
                  answer |-> IF r.out.kind = "return"
                             THEN Return([applied |-> r.out.value])
                             ELSE Throw("API Error")]}
      [] OTHER -> {[db |-> db, answer |-> result] : result \in Answers(req)}

\* the seeded tables and a second job; the client as constructed
InitJobs ==
    LET db == JobCreate(Seeded, [title |-> V("j"), salary |-> V(100), equity |-> undefined,
                                 companyHandle |-> V("c1")], 0).db
    IN  /\ companies = db.companies
        /\ jobs = db.jobs
        /\ jobs_id_seq = db.jobs_id_seq
        /\ users = db.users
        /\ applications = db.applications
        /\ ret = NoCall
        /\ resp = NoExchange
        /\ issued = {}
        /\ api = JoblyApi
        /\ inflight = << >>

NextJobs ==
    \/ login
    \/ applyJob
    \/ /\ Len(api.pending) < MaxPending
       /\ Client(getUser(Fresh))
    \/ \E i \in DOMAIN api.pending :
          \E s \in Served(Db, api.pending[i]) :
             /\ api.pending[i].answer = null
             /\ api' = [api EXCEPT !.pending[i].answer = s.answer]
             /\ applications' = s.db.applications
             /\ UNCHANGED <<companies, jobs, jobs_id_seq, users, ret, resp, issued, inflight>>
    \/ \E i \in DOMAIN api.pending :
          LET req == api.pending[i]
              a == [Fresh EXCEPT !.answered = req,
                                 !.pending = [j \in 1..(Len(@) - 1) |->
                                                 IF j < i THEN @[j] ELSE @[j + 1]]]
          IN  /\ req.answer # null
              /\ Client(Resumed(a, req, req.answer))

SpecJobs == InitJobs /\ [][NextJobs]_vars

(***************************************************************************)
(* SpecObservers: subscribe, unsubscribe and notify called one after the   *)
(* other, with callbacks that subscribe or unsubscribe when called.        *)
(***************************************************************************)
NextObservers ==
    \/ \E eventType \in {"token", "jobs"}, observer \in {"o1", "o2", "once", "more"} :
           /\ Cardinality(UNION {{<<k, i>> : i \in DOMAIN api.observers[k]} :
                                   k \in DOMAIN api.observers}) < MaxSubscriptions + 1
           /\ Client([subscribe(Fresh, eventType, observer) EXCEPT
                         !.last = [op |-> "subscribe", args |-> <<eventType, observer>>,
                                   out |-> Return(undefined)]])
    \/ \E eventType \in {"token", "jobs"}, observer \in {"o1", "o2", "once", "more"} :
           Client([unsubscribe(Fresh, eventType, observer) EXCEPT
                      !.last = [op |-> "unsubscribe", args |-> <<eventType, observer>>,
                                out |-> Return(undefined)]])
    \/ \E eventType \in {"token", "jobs"}, newValue \in {null, Array(<<1>>)} :
           Client([notify(Fresh, eventType, newValue) EXCEPT
                      !.last = [op |-> "notify", args |-> <<eventType, newValue>>,
                                out |-> Return(undefined)]])

SpecObservers == Init /\ [][NextObservers]_vars

(***************************************************************************)
(* Claims on the data-access layer (specification Spec)                    *)
(***************************************************************************)
Threw(r, name, status) ==
    /\ r.out.kind = "throw"
    /\ r.out.error.name = name
    /\ r.out.error.status = V(status)

Returned(r) == r.out.kind = "return"

\* C1: Company.create with an existing handle, User.register with an existing
\* username and JobApplication.apply with an existing (username, jobId) pair
\* each throw BadRequestError (400) and leave every row of every table as it was.
C1_DuplicateRejected ==
    [][ /\ (ret'.op = "Company.create" /\ KeyIn(ret'.args[1].handle, companies))
            => (Threw(ret', "BadRequestError", 400) /\ UNCHANGED dbVars)
        /\ (ret'.op = "User.register" /\ KeyIn(ret'.args[1].username, users))
            => (Threw(ret', "BadRequestError", 400) /\ UNCHANGED dbVars)
        /\ (/\ ret'.op = "JobApplication.apply"
            /\ ret'.args[1].t = "value" /\ ret'.args[2].t = "value"
            /\ [username |-> ret'.args[1].v, job_id |-> ret'.args[2].v] \in applications)
            => (Threw(ret', "BadRequestError", 400) /\ UNCHANGED dbVars) ]_vars

\* a second application for a pair that is in the table was refused, next to
\* another company and another user
C1_Witness ==
    /\ ret.op = "JobApplication.apply"
    /\ Threw(ret, "BadRequestError", 400)
    /\ ret.args[1].t = "value" /\ ret.args[2].t = "value"
    /\ [username |-> ret.args[1].v, job_id |-> ret.args[2].v] \in applications
    /\ Cardinality(DOMAIN users) = 2
    /\ Cardinality(DOMAIN companies) = 2

\* the data object has a field whose value is not undefined
HasDefinedField(data) == \E i \in DOMAIN data : data[i].value # undefined

C3_EmptyDataBadRequest ==
    [][ (ret'.op \in {"Company.update", "Job.update", "User.update"} /\ ret'.args[2] = <<>>)
            => /\ Threw(ret', "BadRequestError", 400)
               /\ ret'.queries = <<>>
               /\ UNCHANGED dbVars ]_vars

\* the empty object was given for a key that is in the table
C3_Witness ==
    /\ ret.op = "User.update"
    /\ ret.args[2] = <<>>
    /\ KeyIn(ret.args[1], users)
    /\ Threw(ret, "BadRequestError", 400)
    /\ ret.queries = <<>>

\* C4: JobApplication.apply(username, jobId), both given: a job id or a
\* username that is not in its table throws NotFoundError, a pair already in
\* applications throws BadRequestError, and none of the three adds a row;
\* otherwise exactly the row (username, jobId) is added.
C4_Apply ==
    [][ (ret'.op = "JobApplication.apply" /\ ret'.args[1].t = "value" /\ ret'.args[2].t = "value")
            => LET row == [username |-> ret'.args[1].v, job_id |-> ret'.args[2].v]
               IN  IF ~KeyIn(ret'.args[2], jobs) \/ ~KeyIn(ret'.args[1], users)
                   THEN Threw(ret', "NotFoundError", 404) /\ applications' = applications
                   ELSE IF row \in applications
                   THEN Threw(ret', "BadRequestError", 400) /\ applications' = applications
                   ELSE /\ Returned(ret')
                        /\ row \notin applications
                        /\ applications' = applications \cup {row} ]_vars

\* an application was added to a table that already held one
C4_Witness ==
    /\ ret.op = "JobApplication.apply"
    /\ Returned(ret)
    /\ Cardinality(applications) = 2

\* the hashes the users table can hold
StoredHashes == {BcryptHash(p) : p \in {"p1", "p2"}}

NoPassword(o) ==
    /\ "password" \notin DOMAIN o
    /\ \A f \in (DOMAIN o) \ {"jobs"} : o[f] \notin StoredHashes

\* C5: whatever calls came before (a password-changing update too), no object
\* returned by User.authenticate, register, findAll, get or update, and no
\* payload of a token made from one, has a password field or holds a stored hash.
C5_NoPasswordReturned ==
    /\ (ret.op \in {"User.authenticate", "User.register", "User.get", "User.update"}
        /\ Returned(ret))
        => /\ NoPassword(ret.out.value)
           /\ \A iat \in {1} : NoPassword(createToken(ret.out.value, iat).payload)
    /\ (ret.op = "User.findAll" /\ Returned(ret))
        => \A i \in DOMAIN ret.out.value.items : NoPassword(ret.out.value.items[i])

\* the user whose password an update changed authenticates with the new one
C5_Witness ==
    /\ ret.op = "User.authenticate"
    /\ Returned(ret)
    /\ ret.args[2] = "p2"

(***************************************************************************)
(* Claims on the HTTP layer (specification SpecHttp)                       *)
(***************************************************************************)
LoggedIn(locals) == "user" \in DOMAIN locals
AdminIn(locals) == LoggedIn(locals) /\ locals.user.isAdmin = V(TRUE)

\* the condition under which the claim lets a guard pass
MayPass(g, locals, params) ==
    CASE g = "ensureLoggedIn" -> LoggedIn(locals)
      [] g = "onlyAdmin" -> AdminIn(locals)
      [] g = "ensureCorrectUserOrAdmin" ->
            LoggedIn(locals) /\ (AdminIn(locals) \/ locals.user.username = params.username)

\* C6: on every route, the handler runs only when each of its guards finds
\* its condition on res.locals.user (set; admin; admin or the user named in
\* the path); otherwise the request is answered 401 Unauthorized, the
\* handler is not run and nothing is written or signed.
C6_Guards ==
    [][ LET gs == Guards[resp'.route]
        IN  IF \A i \in DOMAIN gs : MayPass(gs[i], resp'.locals, resp'.req.params)
            THEN resp'.ran
            ELSE /\ ~resp'.ran
                 /\ resp'.status = 401
                 /\ resp'.json = [error |-> [message |-> "Unauthorized", status |-> 401]]
                 /\ UNCHANGED <<dbVars, issued>> ]_vars

\* a logged-in user who is not an admin asked for another user and got 401
C6_Witness ==
    /\ resp.route = "GetUser"
    /\ LoggedIn(resp.locals)
    /\ ~AdminIn(resp.locals)
    /\ resp.locals.user.username # resp.req.params.username
    /\ resp.status = 401
    /\ ~resp.ran

\* the header is "Bearer <token>" (the scheme in either case) and the token
\* is signed with the server's key
BearerVerifies(h) ==
    /\ h # undefined
    /\ h.v.scheme \in {"Bearer ", "bearer "}
    /\ h.v.cred.t = "jwt"
    /\ h.v.cred.token.key = SECRET_KEY

C8_RegisterNeverAdmin ==
    [][ /\ (resp'.route = "PostAuthRegister" /\ resp'.status = 201)
            => LET n == resp'.req.body.username.v
               IN  /\ n \notin DOMAIN users
                   /\ n \in DOMAIN users'
                   /\ users'[n].is_admin = V(FALSE)
                   /\ resp'.json.token.payload.isAdmin = V(FALSE)
                   /\ resp'.json.token.payload.username = V(n)
        /\ \A n \in (DOMAIN users') \ (DOMAIN users) :
              users'[n].is_admin = V(TRUE)
                  => (resp'.route = "PostUsers" /\ AdminIn(resp'.locals)) ]_vars

\* a registration whose body asked for isAdmin: true was accepted
C8_Witness ==
    /\ resp.route = "PostAuthRegister"
    /\ resp.status = 201
    /\ "isAdmin" \in DOMAIN resp.req.body
    /\ resp.req.body.isAdmin = V(TRUE)
    /\ resp.req.body.username.v \in DOMAIN users
    /\ users[resp.req.body.username.v].is_admin = V(FALSE)

(***************************************************************************)
(* Claims on findAll (specification SpecFind)                              *)
(***************************************************************************)
\* t occurs in s
Contains(s, t) == \E i \in 0..(Len(s) - Len(t)) : SubSeq(s, i + 1, i + Len(t)) = t
ContainsNoCase(s, t) == Contains(Lower(s), Lower(t))

\* rows holds each member of expected once, in ascending order of the column
ExactlyInOrder(rows, expected, column) ==
    /\ {rows[i] : i \in DOMAIN rows} = expected
    /\ Len(rows) = Cardinality(expected)
    /\ \A i, j \in DOMAIN rows : i < j => TextLeq(rows[i][column].v, rows[j][column].v)

CompanySatisfies(row, f) ==
    /\ f.minEmployees # undefined =>
           (row.num_employees # null /\ row.num_employees.v >= f.minEmployees.v)
    /\ f.maxEmployees # undefined =>
           (row.num_employees # null /\ row.num_employees.v <= f.maxEmployees.v)
    /\ f.nameLike # undefined => ContainsNoCase(row.name.v, f.nameLike.v)

\* C9: Company.findAll(filters) returns, in ascending order of name, exactly
\* the companies with numEmployees >= minEmployees, numEmployees <=
\* maxEmployees and a name that contains nameLike whatever the case, each
\* condition only when its filter is given; all companies with no filter.
C9_CompanyFindAll ==
    [][ ret'.op = "Company.findAll"
            => /\ Returned(ret')
               /\ ExactlyInOrder(ret'.out.value.items,
                      {CompanyReturning(companies[h]) :
                          h \in {k \in DOMAIN companies :
                                    CompanySatisfies(companies[k], ret'.args[1])}},
                      "name") ]_vars

JobSatisfies(row, f) ==
    /\ f.minSalary # undefined => (row.salary # null /\ row.salary.v >= f.minSalary.v)
    /\ f.title # undefined => row.title = f.title
    /\ f.titleLike # undefined => ContainsNoCase(row.title.v, f.titleLike.v)
    /\ (f.hasEquity = Bool(TRUE) \/ f.hasEquity = Str("true"))
           => (row.equity # null /\ row.equity.v > 0)

\* C10: Job.findAll(filters) returns, in ascending order of title, exactly the
\* jobs with salary >= minSalary, title equal to title, a title that contains
\* titleLike whatever the case, and equity > 0 when hasEquity is true or
\* 'true'; hasEquity false or absent does not restrict equity, and with no
\* filter every job is returned.
C10_JobFindAll ==
    [][ ret'.op = "Job.findAll"
            => /\ Returned(ret')
               /\ ExactlyInOrder(ret'.out.value.items,
                      {JobReturning(jobs[i]) :
                          i \in {k \in DOMAIN jobs : JobSatisfies(jobs[k], ret'.args[1])}},
                      "title") ]_vars

\* C11: for a username not yet in users, POST /auth/register answers 201 with
\* a token, and a GET /users/:username that follows it, for that username and
\* bearing that token, answers 200 with the registered profile, isAdmin false
\* and jobs the empty list (present, not left out).
C11_RegisterThenGet ==
    [][ /\ (/\ resp'.route = "PostAuthRegister"
            /\ DOMAIN resp'.req.body = SchemaRequired.userRegister
            /\ resp'.req.body.username.v \notin DOMAIN users)
            => /\ resp'.status = 201
               /\ resp'.json = [token |-> [payload |-> [username |-> resp'.req.body.username,
                                                        isAdmin |-> V(FALSE),
                                                        iat |-> V(IssuedAt)],
                                           key |-> SECRET_KEY]]
        /\ (/\ resp.route = "PostAuthRegister"
            /\ resp.status = 201
            /\ resp'.route = "GetUser"
            /\ resp'.req.auth = Header("Bearer ", Jwt(resp.json.token))
            /\ resp'.req.params.username = resp.req.body.username)
            => /\ resp'.status = 200
               /\ resp'.json = [user |-> [username |-> resp.req.body.username,
                                          firstName |-> resp.req.body.firstName,
                                          lastName |-> resp.req.body.lastName,
                                          email |-> resp.req.body.email,
                                          isAdmin |-> V(FALSE),
                                          jobs |-> {}]] ]_vars

\* the registered user, bearing its own token, read its profile: no jobs
C11_Witness ==
    /\ resp.route = "GetUser"
    /\ resp.status = 200
    /\ resp.req.params.username = V("u2")
    /\ LoggedIn(resp.locals)
    /\ resp.locals.user = [username |-> V("u2"), isAdmin |-> V(FALSE), iat |-> V(IssuedAt)]
    /\ resp.json.user.jobs = {}

(***************************************************************************)
(* Claims on sqlForPartialUpdate (specification SpecHelpers)                   *)
(***************************************************************************)
IsDefined(p) == p.value # undefined

\* the result holds one assignment for each of the fields, in their order:
\* column, placeholder i, values[i]
AssignsEach(r, fields, columns) ==
    /\ Returned(r)
    /\ r.out.value.setCols = [i \in 1..Len(fields) |-> [col |-> columns[i], ph |-> i]]
    /\ r.out.value.values = [i \in 1..Len(fields) |-> fields[i].value]

\* C12 as stated: on a non-empty object the result has, in the key order of
\* data, one assignment per field whose value is not undefined (null kept),
\* the i-th being "<column>"=$i, values[i-1] that field's value, <column>
\* jsToSql[field] when mapped and the field name otherwise.
C12_OnePerField ==
    [][ (ret'.op = "sqlForPartialUpdate" /\ ret'.args[1] # <<>>)
            => LET m == ret'.args[2]
                   kept == SelectSeq(ret'.args[1], IsDefined)
               IN  AssignsEach(ret', kept,
                       [i \in 1..Len(kept) |->
                           IF kept[i].key \in DOMAIN m THEN m[kept[i].key] ELSE kept[i].key]) ]_vars

\* what a field stands for: itself, or, when its value is a plain object and
\* the mapping has a key beginning "<field>.", the entries of that object
\* under the names "<field>.<entry>"
Flat(p, m) ==
    IF p.value # undefined /\ p.value.t = "object"
       /\ \E k \in DOMAIN m : startsWith(k, p.key \o ".")
    THEN [i \in DOMAIN p.value.entries |->
            Pair(p.key \o "." \o p.value.entries[i].key, p.value.entries[i].value)]
    ELSE <<p>>

RECURSIVE FlatFields(_, _)
FlatFields(data, m) ==
    IF data = <<>> THEN <<>> ELSE Flat(Head(data), m) \o FlatFields(Tail(data), m)

\* C12 (amended): on a non-empty object the result has, in key order, one
\* assignment per field whose value is not undefined (null kept), where a
\* field whose value is a plain object, when the mapping has a key beginning
\* "<field>.", stands for the entries of that object, named
\* "<field>.<entry>"; the i-th assignment is "<column>"=$i, values[i-1] the
\* value, <column> the mapping's name when it is a non-empty string and the
\* field name otherwise.
C12_Assignments ==
    [][ (ret'.op = "sqlForPartialUpdate" /\ ret'.args[1] # <<>>)
            => LET m == ret'.args[2]
                   kept == SelectSeq(FlatFields(ret'.args[1], m), IsDefined)
               IN  AssignsEach(ret', kept,
                       [i \in 1..Len(kept) |->
                           IF kept[i].key \in DOMAIN m /\ m[kept[i].key] # ""
                           THEN m[kept[i].key] ELSE kept[i].key]) ]_vars

\* an object with a mapped field, a field that is undefined and a nested
\* object with an entry that is undefined and one that is null and not
\* mapped: two assignments, numbered 1 and 2
C12_Witness ==
    /\ ret.op = "sqlForPartialUpdate"
    /\ Returned(ret)
    /\ Len(ret.args[1]) = 3
    /\ \E i \in DOMAIN ret.args[1] : ret.args[1][i].value = undefined
    /\ ret.out.value.setCols =
           <<[col |-> "first_name", ph |-> 1], [col |-> "address.city", ph |-> 2]>>
    /\ ret.out.value.values = <<V("x"), null>>

Enveloped(r) ==
    LET status == IF r.err.status # undefined THEN r.err.status.v ELSE 500
    IN  /\ r.status = status
        /\ DOMAIN r.json = {"error"}
        /\ r.json.error.status = status
        /\ IF "messages" \in DOMAIN r.err
           THEN r.json.error = [messages |-> r.err.messages, status |-> status]
           ELSE r.json.error = [message |-> r.err.message, status |-> status]

\* one response: a success of the handler, or the envelope of the error raised
OneResponse(r) ==
    /\ r.status \in {200, 201, 400, 401, 404, 500}
    /\ r.err # undefined => Enveloped(r)
    /\ r.err = undefined => (r.ran /\ r.status \in {200, 201} /\ "error" \notin DOMAIN r.json)

\* C14 as stated: every request ends with exactly one response; an error
\* raised by a guard, validator, handler or model is answered with
\* {error: {message, status}} and the error's status when it has one, 500
\* otherwise; a path matched by no route answers 404; after an error the
\* server keeps serving (the same holds of the request that follows).
C14_ErrorsAnswered ==
    [][ /\ OneResponse(resp')
        /\ resp'.route \in {"NoRoute", "UsersNoRoute"} => resp'.status = 404 ]_vars

\* C14 (amended): as stated, except that a path matched by no route answers
\* 404 with message "Not Found" only when it lies outside /users or the
\* request is logged in; under /users a request that is not logged in is
\* answered 401 by the router's ensureLoggedIn before the 404 middleware.
C14_ErrorsAnsweredUsers401 ==
    [][ /\ OneResponse(resp')
        /\ (resp'.route = "NoRoute" \/ (resp'.route = "UsersNoRoute" /\ LoggedIn(resp'.locals)))
              => (resp'.status = 404 /\ resp'.json.error.message = "Not Found")
        /\ (resp'.route = "UsersNoRoute" /\ ~LoggedIn(resp'.locals))
              => (resp'.status = 401 /\ resp'.json.error.message = "Unauthorized") ]_vars

\* the model raised an error that has no status: answered 500, with the
\* envelope, after a user was registered over HTTP
C14_Witness ==
    /\ resp.route = "GetCompany"
    /\ resp.err # undefined
    /\ resp.err.status = undefined
    /\ resp.status = 500
    /\ resp.json = [error |-> [message |-> DbDown, status |-> 500]]
    /\ "u2" \in DOMAIN users

\* the schema a route validates with, and the fields of what it validates
\* (the body; the path parameters of POST /users/:username/jobs/:jobId and
\* GET /companies/:handle)
SchemaOf ==
    [PostAuthToken |-> "userAuth", PostAuthRegister |-> "userRegister", PostUsers |-> "userNew",
     PostUsersJobs |-> "userApplication", PatchUser |-> "userUpdate",
     GetCompany |-> "companyHandleOnly"]
Validated(route, req) ==
    IF route \in {"PostUsersJobs", "GetCompany"} THEN DOMAIN req.params
    ELSE IF route = "PatchUser" THEN {req.body[i].key : i \in DOMAIN req.body}
    ELSE DOMAIN req.body

\* C15: on every route that validates its body, query or params against a
\* schema, a failed validation raises BadRequestError (400) whose message is
\* the list of all the validation error messages, and the model operation
\* of the route is not called: the database is unchanged (and no token signed).
C15_ValidationFails ==
    [][ /\ (/\ resp'.route \in DOMAIN SchemaOf
            /\ resp'.ran
            /\ ~(SchemaRequired[SchemaOf[resp'.route]] \subseteq Validated(resp'.route, resp'.req)))
            => LET fields == Validated(resp'.route, resp'.req)
                   schema == SchemaOf[resp'.route]
                   missing == {"requires property " \o f : f \in SchemaRequired[schema] \ fields}
                   extra == {"additional property " \o f : f \in fields \ SchemaProperties[schema]}
               IN  /\ resp'.status = 400
                   /\ resp'.err.name = "BadRequestError"
                   /\ resp'.json.error.messages \in {missing, missing \cup extra}
                   /\ UNCHANGED <<dbVars, issued>>
        /\ (resp'.err # undefined /\ "messages" \in DOMAIN resp'.err)
            => /\ resp'.status = 400
               /\ resp'.json.error.messages # {}
               /\ UNCHANGED <<dbVars, issued>> ]_vars

\* a registration whose body lacks four required fields was refused with
\* the four messages
C15_Witness ==
    /\ resp.route = "PostAuthRegister"
    /\ resp.status = 400
    /\ "messages" \in DOMAIN resp.json.error
    /\ Cardinality(resp.json.error.messages) = 4
    /\ "u2" \notin DOMAIN users

\* C18: a successful POST /users/:username/jobs/:jobId answers 201 with body
\* {applied: jobId}, the value of applied being the id of the job applied to.
C18_AppliedIsJobId ==
    [][ (resp'.route = "PostUsersJobs" /\ resp'.status = 201)
            => /\ [username |-> resp'.req.params.username.v,
                    job_id |-> resp'.req.params.jobId.v] \in applications'
               /\ resp'.json = [applied |-> resp'.req.params.jobId] ]_vars

(***************************************************************************)
(* Claims on User.update and User.authenticate (specification Spec)        *)
(***************************************************************************)
\* a call of User.update on a user that is in the table
UpdatesUser(r, us) == r.op = "User.update" /\ KeyIn(r.args[1], us)

SetsPassword(r) ==
    /\ Returned(r)
    /\ \/ r.op = "User.register"
       \/ r.op = "User.update" /\ Field(r.args[2], "password") # undefined
PasswordSet(r) ==
    IF r.op = "User.register" THEN r.args[1].password ELSE Field(r.args[2], "password").v
UserOf(r) == IF r.op = "User.register" THEN r.args[1].username ELSE r.args[1]

\* C20: User.authenticate(username, password) returns the user record exactly
\* when the user exists and password is the one most recently set for it by
\* User.register or by a User.update that supplied a password, and raises
\* UnauthorizedError (401) otherwise: it returns or raises Unauthorized; right
\* after a call that set a password it returns exactly for that password (so
\* the previous one no longer authenticates); and only a returned update
\* that supplies a password changes what a user's password is.
C20_AuthenticateLastPassword ==
    [][ /\ ret'.op = "User.authenticate"
            => \/ Threw(ret', "UnauthorizedError", 401)
               \/ /\ Returned(ret')
                  /\ KeyIn(ret'.args[1], users)
                  /\ ret'.out.value = UserReturning(users[ret'.args[1].v])
        /\ (SetsPassword(ret) /\ ret'.op = "User.authenticate" /\ ret'.args[1] = UserOf(ret))
            => (Returned(ret') <=> ret'.args[2] = PasswordSet(ret))
        /\ \A n \in (DOMAIN users) \cap (DOMAIN users') :
              users'[n].password # users[n].password
                  => (ret'.op = "User.update" /\ ret'.args[1] = V(n) /\ SetsPassword(ret'))
        /\ (ret.op = "User.authenticate" /\ ret'.op = "User.authenticate" /\ ret'.args = ret.args)
            => ret'.out = ret.out ]_vars

(***************************************************************************)
(* Claims on the API client (specification SpecClient)                     *)
(***************************************************************************)
\* the step is a call of login or register made while state.token is not null
ReauthCall ==
    /\ api'.answered = null
    /\ api'.last.op \in {"login", "register"}
    /\ api.state.token # null

\* C16: JoblyApi.login and JoblyApi.register called while state.token is
\* not null throw without sending a request, and leave the in-memory state,
\* the token in localStorage and the observer lists as they were.
C16_NoReauth ==
    [][ReauthCall =>
            /\ api'.last.out.kind = "throw"
            /\ api'.pending = api.pending
            /\ api'.state = api.state
            /\ api'.localStorage = api.localStorage
            /\ api'.observers = api.observers]_vars

\* a login was refused while a token was stored, observers were subscribed
\* and a request was in flight
C16_Witness ==
    /\ api.answered = null
    /\ api.last.op = "login"
    /\ api.last.out.kind = "throw"
    /\ api.state.token # null
    /\ api.localStorage = api.state.token
    /\ DOMAIN api.observers # {}
    /\ Len(api.pending) > 0

\* the keys each mutating operation assigns
AssignedKeys ==
    [login |-> {"token", "username"}, register |-> {"token", "username"},
     update |-> {"user"}, applyJob |-> {"jobs"},
     logout |-> {"token", "username", "user", "isAdmin", "jobs"}]

\* the last step called observer o of key k with the value state[k] holds
Told(k, o) ==
    \E i \in DOMAIN api.notified :
        /\ api.notified[i][1] = k
        /\ api.notified[i][2] = o
        /\ api.notified[i][3] = api.state[k]

\* C17: for login, register, update, applyJob and logout, an observer that
\* is called finds in state[key] the value it is given, and when the
\* operation has returned every observer of each key it assigns has been
\* called with the value the key now holds.
C17_AssignThenNotify ==
    /\ \A i \in DOMAIN api.notified : api.notified[i][3] = api.notified[i][4]
    /\ (api.last.op \in DOMAIN AssignedKeys /\ api.last.out.kind = "return")
         => \A k \in AssignedKeys[api.last.op] \cap DOMAIN api.observers :
                \A j \in DOMAIN api.observers[k] : Told(k, api.observers[k][j])

\* a login has resolved with two observers subscribed to token, both called
C17_Witness ==
    /\ api.last.op = "login"
    /\ api.last.out.kind = "return"
    /\ "token" \in DOMAIN api.observers
    /\ Len(api.observers["token"]) = 2
    /\ Told("token", api.observers["token"][1])
    /\ Told("token", api.observers["token"][2])
    /\ api.state.token # null

(***************************************************************************)
(* Claims on Job.create and on the references between the tables           *)
(***************************************************************************)
\* C21: Job.create (of a job that has a title) with a companyHandle that is
\* null or undefined, or that is the handle of no company, throws
\* BadRequestError (400) and leaves the jobs as they were; with the handle
\* of a company it returns and adds exactly one job, whose company_handle is
\* that handle.
C21_JobCreate ==
    [][ret'.op = "Job.create" =>
          LET handle == ret'.args[1].companyHandle
          IN  IF KeyIn(handle, companies)
              THEN /\ Returned(ret')
                   /\ \E id \in DOMAIN jobs' \ DOMAIN jobs :
                        /\ DOMAIN jobs' = DOMAIN jobs \cup {id}
                        /\ jobs'[id].company_handle = handle
                        /\ ret'.out.value.companyHandle = handle
                        /\ \A i \in DOMAIN jobs : jobs'[i] = jobs[i]
              ELSE /\ Threw(ret', "BadRequestError", 400)
                   /\ jobs' = jobs]_vars

\* a job of a company was created next to an earlier job, and the table
\* holds two companies
C21_Witness ==
    /\ ret.op = "Job.create"
    /\ Returned(ret)
    /\ Cardinality(DOMAIN jobs) = 2
    /\ Cardinality(DOMAIN companies) = 2
    /\ \A i \in DOMAIN jobs : jobs[i].company_handle = V("c1")

QueryFailed(r) ==
    /\ r.route # "none"
    /\ "message" \in DOMAIN r.err
    /\ r.err.message = DbDown

\* C23: when a query fails inside a data-access operation, the request is
\* answered with HTTP 500, never with 400, 401 or 404.
C23_QueryFailureIs500 ==
    QueryFailed(resp) => resp.status = 500

(***************************************************************************)
(* Claims on the observers (specification SpecObservers)                   *)
(***************************************************************************)
\* the callbacks subscribed under a key, in the order of their subscription
ObserversOf(a, key) == IF key \in DOMAIN a.observers THEN a.observers[key] ELSE << >>

\* how often the callback is registered in the list
Registrations(list, observer) == Cardinality({i \in DOMAIN list : list[i] = observer})

\* the callbacks called by the last notify, in the order of their calls
Called_(a) == [i \in DOMAIN a.notified |-> a.notified[i][2]]

RECURSIVE InOrder(_, _)
\* the calls are made in the order of the list (each registration at most once)
InOrder(calls, list) ==
    IF calls = << >> THEN TRUE
    ELSE IF list = << >> THEN FALSE
    ELSE IF Head(calls) = Head(list) THEN InOrder(Tail(calls), Tail(list))
    ELSE InOrder(calls, Tail(list))

\* C24: notify(key, value) calls every observer subscribed under key once per
\* registration and in the order of subscription, and no observer that is
\* not subscribed under key when it starts; this holds also when a callback
\* subscribes or unsubscribes while it is called (a callback still registered
\* as often after the notification as before it has been called once per
\* registration); unsubscribe of a callback that is not subscribed changes
\* nothing.
C24_NotifyCallsEach ==
    [][ /\ api'.last.op = "notify" =>
              LET key == api'.last.args[1]
                  before == ObserversOf(api, key)
                  after == ObserversOf(api', key)
                  calls == Called_(api')
              IN  /\ \A i \in DOMAIN api'.notified : api'.notified[i][1] = key
                  /\ InOrder(calls, before)
                  /\ \A i \in DOMAIN before :
                        Registrations(after, before[i]) >= Registrations(before, before[i])
                           => Registrations(calls, before[i]) = Registrations(before, before[i])
        /\ (/\ api'.last.op = "unsubscribe"
            /\ Registrations(ObserversOf(api, api'.last.args[1]), api'.last.args[2]) = 0)
              => api'.observers = api.observers ]_vars

(***************************************************************************)
(* Claims on calls whose queries interleave (specification SpecRace)       *)
(***************************************************************************)
\* two calls of one operation with one natural key
SameKey(a, b) ==
    /\ a.op = b.op
    /\ CASE a.op = "Company.create" -> a.args.handle = b.args.handle
         [] a.op = "User.register" -> a.args.username = b.args.username
         [] OTHER -> a.args = b.args

\* C25: when two creations of one natural key (Company.create of a handle,
\* User.register of a username, JobApplication.apply of a pair) run with
\* their queries interleaved, at most one of them inserts, and the one that
\* did not insert fails with BadRequestError (400).
C25_LoserIsBadRequest ==
    \A i, j \in DOMAIN inflight :
        (i # j /\ SameKey(inflight[i], inflight[j]) /\ inflight[i].out.kind = "return")
           => /\ inflight[j].out.kind # "return"
              /\ inflight[j].out.kind = "throw"
                    => /\ inflight[j].out.error.name = "BadRequestError"
                       /\ inflight[j].out.error.status = V(400)

C27_AppliesForSelfOrAdmin ==
    [][ \A row \in applications' \ applications :
           /\ LoggedIn(resp'.locals)
           /\ \/ resp'.locals.user.username = V(row.username)
              \/ resp'.locals.user.isAdmin = V(TRUE) ]_vars

(***************************************************************************)
(* Claims on the session state of the client (specification SpecClient)    *)
(***************************************************************************)
\* C28: whenever state.token is null, state.username and state.user are
\* null too: after logout the session stays cleared, also when the answers
\* to requests started before the logout arrive after it.
C28_ClearedSession ==
    api.state.token = null => (api.state.username = null /\ api.state.user = null)

(***************************************************************************)
(* Claims on the applied jobs of the client (specification SpecJobs)       *)
(***************************************************************************)
\* the job ids of state.jobs (none when state.jobs is null)
JobsHeld(a) == IF a.state.jobs = null THEN << >> ELSE a.state.jobs.items

\* C29: state.jobs never holds a job id twice, in whatever order applyJob
\* and getUser are called and their answers arrive; an applyJob that fails
\* leaves state.jobs as it is, and one that succeeds adds the applied id and
\* nothing else.
C29_JobsOnce ==
    [][ /\ \A i, j \in DOMAIN JobsHeld(api') :
              i # j => JobsHeld(api')[i] # JobsHeld(api')[j]
        /\ (/\ Len(api'.pending) < Len(api.pending)
            /\ api'.answered.caller = "applyJob")
              => IF api'.last.out.kind = "throw"
                 THEN api'.state.jobs = api.state.jobs
                 ELSE JobsHeld(api') = Append(JobsHeld(api), api'.answered.args.jobId.v) ]_vars

(***************************************************************************)
(* Claims on the SET list (specification SpecHelpers)                      *)
(***************************************************************************)
\* C30: whenever sqlForPartialUpdate returns, values is not empty and
\* setCols has as many assignments as values has elements; an object all
\* of whose fields are undefined is refused with BadRequestError (400) as
\* the empty object is.
C30_NeverEmptySet ==
    [][ ret'.op = "sqlForPartialUpdate"
           => /\ Returned(ret')
                    => /\ Len(ret'.out.value.values) > 0
                       /\ Len(ret'.out.value.setCols) = Len(ret'.out.value.values)
              /\ ~HasDefinedField(ret'.args[1]) => Threw(ret', "BadRequestError", 400) ]_vars

====
